---- MODULE Spec2Model ----
(***************************************************************************)
(* Document analysis pipeline of the UPSC current-affairs analyser.        *)
(*                                                                         *)
(* Four deployments of the analysis endpoint are modelled:                 *)
(*   "api"     api/analyze.ts        (Vercel function, priority scoring)   *)
(*   "server1" backend/server.js     (first  app.post('/api/analyze'))     *)
(*   "server2" backend/server.js     (second app.post('/api/analyze'))     *)
(*   "edge"    unnamed/part_008      (two-phase Deno function)             *)
(*                                                                         *)
(* A request is a coroutine: one action per stretch of code between two    *)
(* awaits.  Strings are sequences of tokens, " " being whitespace and any  *)
(* other token one non-blank run of characters.  Confidences and scores    *)
(* are hundredths (0.55 is 55).  JSON values are tagged records.           *)
(***************************************************************************)
EXTENDS Integers, Sequences, FiniteSets, TLC

----------------------------------------------------------------------------
(* Bounds of the model *)

MaxReqs == 2            \* requests one instance receives (GovSpec)
MaxItems == 1           \* items of one category in a two-phase reply
MaxApiItems == 2        \* items of one category in a single-call reply
MaxPages == 2           \* qualifying pages of an uploaded document (edge)
MaxSentences == 3       \* sentences (or parts of them) of one page (chunkText)
MaxProse == 2           \* tokens in front of and behind the JSON object of a reply
MaxScored == 2          \* items of one list handed to processNewsItems
MaxRetryAfter == 6      \* seconds a 429 response can carry as retryAfter
MaxBlocks == 25          \* blocks of 5000 characters in an extracted text
MaxIndex == 1           \* item and point indices the editing calls are given

----------------------------------------------------------------------------
(* Program constants *)

CATEGORIES ==
  {"polity", "economy", "international_relations", "science_tech",
   "environment", "geography", "culture", "security", "misc"}

ApiRetries == 3                 \* callGemini(prompt, apiKey, retries = 3)
ServerRetries == 2              \* callGemini(prompt, retries = 2)
MAX_CHARS_PER_CHUNK == 2000
MIN_WORDS_PER_CHUNK == 20
MAX_RETRIES == 1                \* two-phase function
MIN_CONFIDENCE == 55            \* 0.55, two-phase function
ApiConfidence == 50             \* "Include items with confidence >= 0.5"
MinPointWords == 5              \* p.text.split(/\s+/).length >= 5
MIN_REQUEST_INTERVAL == 5       \* seconds (documented: 5000 ms)
ApiMaxChars == 80000
ApiChunkSize == 40000
ApiMaxWindows == 2
ServerMaxChars == 100000
ServerChunkSize == 50000
ServerMaxWindows == 3
ApiTruncate == 40000
ServerTruncate == 50000
MinTextLength == 50
TitlePrefix == 50
ExcerptCap == 80

Variants == {"api", "server1", "server2", "edge"}
NodeVariants == {"api", "server1", "server2"}

Retries(v) ==
  CASE v = "api" -> ApiRetries
    [] v \in {"server1", "server2"} -> ServerRetries
    [] OTHER -> MAX_RETRIES

----------------------------------------------------------------------------
(* Strings *)

SP == " "

\* The first position from i on that holds no whitespace.
RECURSIVE SkipSpaces(_, _)
SkipSpaces(t, i) == IF i <= Len(t) /\ t[i] = SP THEN SkipSpaces(t, i + 1) ELSE i

RECURSIVE SplitFrom(_, _, _)
SplitFrom(t, i, acc) ==
  LET ahead == {j \in i..Len(t) : t[j] = SP}
  IN IF ahead = {} THEN Append(acc, SubSeq(t, i, Len(t)))
     ELSE LET j == CHOOSE x \in ahead : \A y \in ahead : x <= y
          IN SplitFrom(t, SkipSpaces(t, j), Append(acc, SubSeq(t, i, j - 1)))

\* text.split(/\s+/): the pieces between maximal runs of whitespace; a
\* leading or trailing run leaves an empty piece at that end.
split(t) == SplitFrom(t, 1, <<>>)

\* text.split(/\s+/).filter(w => w.length > 0).length
countWords(t) == Len(SelectSeq(split(t), LAMBDA w : Len(w) > 0))

Lower(ch) ==
  CASE ch = "A" -> "a"
    [] ch = "B" -> "b"
    [] OTHER -> ch

toLowerCase(t) == [i \in 1..Len(t) |-> Lower(t[i])]

substring(t, n) == SubSeq(t, 1, IF Len(t) < n THEN Len(t) ELSE n)

\* item.title.toLowerCase().substring(0, 50)
normalizedTitle(title) == substring(toLowerCase(title), TitlePrefix)

----------------------------------------------------------------------------
(* JSON values returned by the model *)

Undef == [t |-> "undef"]
Null == [t |-> "null"]
Text(s) == [t |-> "text", s |-> s]
Arr(s) == [t |-> "arr", a |-> s]
Num(n) == [t |-> "num", n |-> n]
Obj(f) == [t |-> "obj", o |-> f]

Truthy(j) ==
  \/ j.t \in {"arr", "obj"}
  \/ j.t = "num" /\ j.n # 0
  \/ j.t = "text" /\ Len(j.s) > 0
IsArray(j) == j.t = "arr"
IsNumber(j) == j.t = "num"

\* Sample texts
Words5 == <<"w", SP, "w", SP, "w", SP, "w", SP, "w">>
Numeric5 == <<"w", SP, "w", SP, "w", SP, "w", SP, "5%">>
Words2 == <<"w", SP, "w">>
Padded3 == <<SP, "w", SP, "w", SP, "w", SP>>
Empty == <<>>
Str == Text(<<"none">>)         \* a string where a list belongs

\* Raw items as the single-call prompt asks for them: points are strings.
ApiItems ==
  { [title |-> Text(<<"A">>), points |-> Arr(<<Numeric5, Words2>>), confidence |-> Num(90)],
    [title |-> Text(<<"a">>), points |-> Arr(<<Padded3>>), confidence |-> Num(30)],
    [title |-> Text(<<"B">>), points |-> Undef, confidence |-> Undef] }

\* Raw items as the category prompt asks for them: points are objects.
EdgeItems ==
  { [title |-> Text(<<"A">>),
     points |-> Arr(<<[text |-> Text(Words5), confidence |-> Num(90)],
                      [text |-> Text(Words2), confidence |-> Undef]>>),
     references |-> Arr(<<[page |-> Num(1), excerpt |-> Text(<<"e">>)]>>),
     confidence |-> Num(90)],
    [title |-> Undef,
     points |-> Arr(<<[text |-> Text(Padded3), confidence |-> Num(80)]>>),
     references |-> Undef,
     confidence |-> Num(60)],
    [title |-> Text(<<"B">>),
     points |-> Arr(<<[text |-> Text(Words5), confidence |-> Num(90)]>>),
     references |-> Arr(<<[page |-> Undef, excerpt |-> Undef]>>),
     confidence |-> Num(30)],
    [title |-> Text(<<"C">>),
     points |-> Arr(<<[text |-> Text(Empty), confidence |-> Num(90)]>>),
     references |-> Undef,
     confidence |-> Undef] }

RECURSIVE SeqsUpTo(_, _)
SeqsUpTo(S, n) ==
  IF n = 0 THEN {<<>>}
  ELSE LET shorter == SeqsUpTo(S, n - 1)
       IN shorter \cup {Append(s, x) : s \in shorter, x \in S}

\* What the model service can put where a category's list belongs.
ApiPayloads == {Undef, Null, Str} \cup {Arr(s) : s \in SeqsUpTo(ApiItems, MaxApiItems)}
EdgePayloads == {Undef, Str} \cup {Arr(s) : s \in SeqsUpTo(EdgeItems, MaxItems)}

\* The "categories" object of a reply: `first` under polity, `rest` under the
\* other eight names; when `rest` is absent the reply names a key outside the
\* fixed list instead.
CategoriesObject(first, rest) ==
  IF rest = Undef
  THEN [k \in {"polity", "sports"} |-> IF k = "polity" THEN first ELSE Arr(<<>>)]
  ELSE [k \in CATEGORIES |-> IF k = "polity" THEN first ELSE rest]

\* Reply texts, by what response.match(/\{[\s\S]*\}/) and JSON.parse make of them.
NoJson == [json |-> "none"]
BadJson == [json |-> "bad"]
Json(o) == [json |-> "ok", value |-> o]

ApiOutputs ==
  {NoJson, BadJson, Json([categories |-> Undef])}
  \cup {Json([categories |-> Obj(CategoriesObject(p, q))]) :
          p \in ApiPayloads, q \in {Undef, Arr(<<>>)}}

EdgeOutputs == {NoJson, BadJson} \cup {Json([items |-> p]) : p \in EdgePayloads}

----------------------------------------------------------------------------
(* callGemini: one attempt *)

Statuses == {"ok", "s429", "s403", "s400", "s500", "abort", "nocand"}
Failures == Statuses \ {"ok"}

RateLimitMessage ==
  <<"Rate", SP, "limit", SP, "exceeded.", SP, "Your", SP, "API", SP, "key", SP, "hit", SP, "the", SP, "free", SP, "tier", SP, "limit",
    SP, "(15", SP, "requests/minute).", SP, "Wait", SP, "60", SP, "seconds", SP, "or", SP, "upgrade", SP, "to", SP, "paid", SP, "tier.">>
QuotaMessage ==
  <<"API", SP, "key", SP, "invalid", SP, "or", SP, "quota", SP, "exceeded.", SP, "Your", SP, "key", SP, "may", SP, "be", SP, "disabled", SP, "or",
    SP, "out", SP, "of", SP, "quota.", SP, "Check", SP, "https://aistudio.google.com/apikey">>

\* The Error an attempt throws, by deployment.
AttemptError(v, st) ==
  CASE st = "abort" -> <<"This", SP, "operation", SP, "was", SP, "aborted">>
    [] st = "nocand" /\ v = "edge" -> <<"Gemini", SP, "returned", SP, "empty", SP, "response">>
    [] st = "nocand" -> <<"Invalid", SP, "response", SP, "structure", SP, "from", SP, "Gemini">>
    [] v = "api" /\ st = "s429" -> RateLimitMessage
    [] v = "api" /\ st = "s403" -> QuotaMessage
    [] v = "api" /\ st = "s400" -> <<"Bad", SP, "request", SP, "to", SP, "Gemini", SP, "API:", SP, "errorText">>
    [] v = "edge" -> <<"Gemini", SP, "API", SP, "error", SP, st, SP, "errorText">>
    [] OTHER -> <<"Gemini", SP, "API", SP, "error:", SP, st, SP, "-", SP, "errorText">>

\* A catch block that allows one attempt more.
GivesUpLate(attempt, retries) == attempt = retries + 1

\* catch (error) { if (attempt === retries) throw error; ...wait, loop }
GivesUp(attempt, retries) == attempt = retries

----------------------------------------------------------------------------
(* Single-call analysis: api/analyze.ts and backend/server.js *)

\* Tokens that one of the numericPatterns matches.
NumericTokens == {"5%", "7%", "9%", "2025", "2030", "40MW"}
IsNumeric(tok) == tok \in NumericTokens

RECURSIVE Distinct(_, _)
Distinct(s, seen) ==
  IF s = <<>> THEN <<>>
  ELSE IF Head(s) \in seen THEN Distinct(Tail(s), seen)
       ELSE <<Head(s)>> \o Distinct(Tail(s), seen \cup {Head(s)})

RECURSIVE join(_)
join(parts) ==
  IF parts = <<>> THEN <<>>
  ELSE IF Len(parts) = 1 THEN parts[1]
       ELSE parts[1] \o <<SP>> \o join(Tail(parts))

TitleText(item) == IF item.title.t = "text" THEN item.title.s ELSE <<"undefined">>

\* `${item.title} ${item.points.join(' ')}` matched against the numeric
\* patterns; at most 5 distinct matches are kept.
detectNumericalData(item) ==
  LET allText == TitleText(item) \o <<SP>> \o join(item.points.a)
      matches == SelectSeq(allText, IsNumeric)
  IN [hasNumbers |-> matches # <<>>,
      numericHighlights |-> substring(Distinct(matches, {}), 5)]

Min(a, b) == IF a < b THEN a ELSE b

calculatePriorityScore(item) ==
  LET score == IF Truthy(item.confidence) THEN item.confidence.n ELSE 50
      boost == IF item.hasNumbers /\ Len(item.numericHighlights) > 0
               THEN Min(20, Len(item.numericHighlights) * 5)
               ELSE 0
  IN Min(score + boost, 100)

processItem(item) ==
  LET d == detectNumericalData(item)
      processedItem == [title |-> item.title, points |-> item.points,
                        confidence |-> item.confidence,
                        hasNumbers |-> d.hasNumbers,
                        numericHighlights |-> d.numericHighlights,
                        priorityScore |-> 0]
  IN [processedItem EXCEPT !.priorityScore = calculatePriorityScore(processedItem)]

\* items.map throws unless items is a list; item.points.join throws unless
\* points is a list.
processNewsItemsThrows(items) ==
  \/ ~IsArray(items)
  \/ \E i \in 1..Len(items.a) : ~IsArray(items.a[i].points)

processNewsItems(items) == Arr([i \in 1..Len(items.a) |-> processItem(items.a[i])])

NoJsonMessage == <<"No", SP, "valid", SP, "JSON", SP, "found", SP, "in", SP, "Gemini", SP, "response">>
SyntaxErrorMessage ==
  <<"Unexpected", SP, "token", SP, "}", SP, "in", SP, "JSON", SP, "at", SP, "position", SP, "1">>
TypeErrorMessage ==
  <<"Cannot", SP, "read", SP, "properties", SP, "of", SP, "undefined">>
ErrorTitle == <<"Error:", SP, "Could", SP, "not", SP, "analyze", SP, "with", SP, "Gemini", SP, "AI">>
CheckKeyPoint ==
  <<"Please", SP, "check", SP, "your", SP, "GEMINI_API_KEY", SP, "environment", SP, "variable", SP, "in", SP, "Vercel">>
CheckEnvPoint ==
  <<"Please", SP, "check", SP, "your", SP, "VITE_GEMINI_API_KEY", SP, "in", SP, ".env", SP, "file">>
GetKeyPoint == <<"Get", SP, "your", SP, "key", SP, "from:", SP, "https://ai.google.dev/">>

\* The catch block of analyzeSingleChunk: eight empty categories and one
\* synthetic item under polity that carries the error's message.
Fallback(v, message) ==
  LET points == IF v = "api"
                THEN <<(<<"Error:", SP>> \o message), CheckKeyPoint>>
                ELSE <<(<<"Error:", SP>> \o message), CheckEnvPoint, GetKeyPoint>>
      item == [title |-> Text(ErrorTitle), points |-> Arr(points), confidence |-> Num(50)]
  IN [categories |->
        [c \in CATEGORIES |-> IF c = "polity" THEN Arr(<<item>>) ELSE Arr(<<>>)]]

Has(cats, c) == c \in DOMAIN cats /\ Truthy(cats[c])

\* The try block of analyzeSingleChunk once callGemini has returned `text`.
parseAnalysis(v, text) ==
  IF text.json = "none" THEN Fallback(v, NoJsonMessage)
  ELSE IF text.json = "bad" THEN Fallback(v, SyntaxErrorMessage)
  ELSE IF text.value.categories.t # "obj" THEN Fallback(v, TypeErrorMessage)
  ELSE LET cats == text.value.categories.o
       IN IF v = "api" /\ \E c \in CATEGORIES : Has(cats, c) /\ processNewsItemsThrows(cats[c])
          THEN Fallback(v, TypeErrorMessage)
          ELSE [categories |->
                  [k \in (DOMAIN cats) \cup CATEGORIES |->
                     IF k \notin CATEGORIES THEN cats[k]
                     ELSE IF ~Has(cats, k) THEN Arr(<<>>)
                     ELSE IF v = "api" THEN processNewsItems(cats[k])
                     ELSE cats[k]]]

\* analyzeSingleChunk: `call` is what callGemini did, returned text or thrown error.
analyzeSingleChunk(v, call) ==
  IF call.ok THEN parseAnalysis(v, call.text) ELSE Fallback(v, call.error)

----------------------------------------------------------------------------
(* mergeAnalysisResults *)

RECURSIVE concat(_, _)
concat(results, c) ==
  IF results = <<>> THEN <<>>
  ELSE LET cats == Head(results).categories
       IN (IF Has(cats, c) THEN cats[c].a ELSE <<>>) \o concat(Tail(results), c)

\* push(...value) spreads a string into its characters, which have no
\* title; item.title.toLowerCase() then throws, as it does for an item
\* without a title.
mergeThrows(results) ==
  \E i \in 1..Len(results) : \E c \in CATEGORIES :
     LET cats == results[i].categories
     IN Has(cats, c) /\
        (~IsArray(cats[c]) \/ \E j \in 1..Len(cats[c].a) : cats[c].a[j].title.t # "text")

RECURSIVE unique(_, _)
unique(items, seenTitles) ==
  IF items = <<>> THEN <<>>
  ELSE LET nt == normalizedTitle(Head(items).title.s)
       IN IF nt \in seenTitles THEN unique(Tail(items), seenTitles)
          ELSE <<Head(items)>> \o unique(Tail(items), seenTitles \cup {nt})

Priority(item) == IF "priorityScore" \in DOMAIN item THEN item.priorityScore ELSE 0

\* Array.prototype.sort is stable: an item goes behind the items that do
\* not score lower.
RECURSIVE insertByPriority(_, _)
insertByPriority(sorted, item) ==
  IF sorted = <<>> THEN <<item>>
  ELSE IF Priority(Head(sorted)) >= Priority(item)
       THEN <<Head(sorted)>> \o insertByPriority(Tail(sorted), item)
       ELSE <<item>> \o sorted

RECURSIVE sortByPriority(_)
sortByPriority(items) ==
  IF items = <<>> THEN <<>>
  ELSE insertByPriority(sortByPriority(SubSeq(items, 1, Len(items) - 1)), items[Len(items)])

Reverse(s) == [i \in 1..Len(s) |-> s[Len(s) + 1 - i]]

\* A merge whose sort is not stable: items of equal score swap places.
mergeUnstable(v, results) ==
  [categories |->
     [c \in CATEGORIES |->
        LET u == unique(concat(results, c), {})
        IN Arr(IF v = "api" THEN sortByPriority(Reverse(u)) ELSE u)]]

mergeAnalysisResults(v, results) ==
  [categories |->
     [c \in CATEGORIES |->
        LET u == unique(concat(results, c), {})
        IN Arr(IF v = "api" THEN sortByPriority(u) ELSE u)]]

----------------------------------------------------------------------------
(* Two-phase analysis: unnamed/part_008 *)

OrEmpty(j) == IF Truthy(j) THEN j ELSE Arr(<<>>)

\* .filter(p => p.text && p.text.split(/\s+/).length >= 5)
keepsPoint(p) == Truthy(p.text) /\ Len(split(p.text.s)) >= MinPointWords

mapPoints(points) ==
  LET kept == SelectSeq(points, keepsPoint)
  IN [i \in 1..Len(kept) |->
        [text |-> kept[i].text.s,
         confidence |-> IF IsNumber(kept[i].confidence) THEN kept[i].confidence.n ELSE 50]]

mapReferences(refs) ==
  LET kept == SelectSeq(refs, LAMBDA r : IsNumber(r.page))
  IN [i \in 1..Len(kept) |->
        [page |-> kept[i].page.n,
         excerpt |-> substring(IF Truthy(kept[i].excerpt) THEN kept[i].excerpt.s ELSE <<>>, ExcerptCap)]]

mapItem(item, chunkIds) ==
  [title |-> IF Truthy(item.title) THEN item.title.s ELSE <<"Untitled">>,
   points |-> mapPoints(OrEmpty(item.points).a),
   references |-> mapReferences(OrEmpty(item.references).a),
   confidence |-> IF IsNumber(item.confidence) THEN item.confidence.n ELSE 50,
   sourceChunkIds |-> chunkIds]

keepsItem(item) == Len(item.points) > 0 /\ item.confidence >= MIN_CONFIDENCE

\* (parsed.items || []).map(...): a string there has no map.
extractThrows(text) ==
  \/ text.json # "ok"
  \/ Truthy(text.value.items) /\ ~IsArray(text.value.items)

\* extractCategoryItems after its callGemini: the items kept, [] on any error.
extractCategoryItems(call, chunkIds) ==
  IF ~call.ok \/ extractThrows(call.text) THEN <<>>
  ELSE LET raw == OrEmpty(call.text.value.items).a
           items == [i \in 1..Len(raw) |-> mapItem(raw[i], chunkIds)]
       IN SelectSeq(items, keepsItem)

compatibleItem(item) ==
  [title |-> Text(item.title),
   points |-> Arr([i \in 1..Len(item.points) |-> item.points[i].text]),
   references |-> Arr(item.references),
   confidence |-> Num(item.confidence)]

RECURSIVE lowConfidence(_, _)
lowConfidence(items, cats) ==
  IF cats = {} THEN 0
  ELSE LET c == CHOOSE x \in cats : TRUE
       IN Len(SelectSeq(items[c], LAMBDA item : item.confidence < 70))
          + lowConfidence(items, cats \ {c})

\* The document performTwoPhaseAnalysis assembles from the categories whose
\* extraction was fulfilled with success.
assemble(items, nChunks) ==
  [categories |->
     [c \in CATEGORIES |->
        Arr([i \in 1..Len(items[c]) |-> compatibleItem(items[c][i])])],
   metadata |->
     [chunksUsed |-> nChunks,
      lowConfidenceCount |-> lowConfidence(items, CATEGORIES)]]

\* A reply to the classification prompt: chunk id -> the category named.
ClassifierNames == {"polity", "economy", "sports"}

\* A classifier whose catch block maps no category to any chunk.
classifyWithoutFallback(call, chunkIds) ==
  IF ~call.ok \/ call.text.json # "ok"
  THEN [c \in CATEGORIES |-> {}]
  ELSE LET chunkToCategory == call.text.value
       IN [c \in CATEGORIES |->
             {id \in DOMAIN chunkToCategory : chunkToCategory[id] = c}]

\* classifyPagesForCategories after its callGemini.
classifyPagesForCategories(call, chunkIds) ==
  IF ~call.ok \/ call.text.json # "ok"
  THEN [c \in CATEGORIES |-> chunkIds]
  ELSE LET chunkToCategory == call.text.value
       IN [c \in CATEGORIES |->
             {id \in DOMAIN chunkToCategory : chunkToCategory[id] = c}]

ClassifierOutputs(chunkIds) ==
  {NoJson, BadJson}
  \cup UNION {{Json(f) : f \in [S -> ClassifierNames]} : S \in SUBSET chunkIds}

----------------------------------------------------------------------------
(* The browser client: App, Landing, Analysis and useAnalysisStore *)

COOLDOWN_SECONDS == 5

NoStoreCall == [op |-> "none", args |-> <<>>]

\* useState's initial values in App and Landing; nothing in localStorage.
\* `remaining` measures the seconds still to pass since the last success
\* (5) or 429 response (its retryAfter); `called` is the latest store call
\* made from the results page.
FreshBrowser ==
  [currentPage |-> "landing", uploadedFile |-> "none", isLoading |-> FALSE,
   error |-> FALSE, cooldownSeconds |-> 0, request |-> "none",
   localStorage |-> Null, remaining |-> 0, called |-> NoStoreCall]

\* create(...)'s initial state.
EmptyStore ==
  [analysisJSON |-> Null, editedJSON |-> Null, aiRawResponse |-> Null,
   isLoading |-> FALSE, error |-> FALSE, bookmarkedItems |-> {}]

----------------------------------------------------------------------------
(* State *)

VARIABLES
  env,        \* the instance: deployment, GEMINI_API_KEY set or not, its clients
  elapsed,    \* seconds since a request last entered the pipeline (capped)
  pc,         \* where each request's handler stands
  tempFile,   \* the uploaded file on disk: "none", "exists", "deleted"
  unlinks,    \* fs.unlinkSync calls made for the request's file
  early,      \* the request arrived before the cooldown had elapsed
  windows,    \* text windows analyzeWithGemini makes of the request's text
  results,    \* analyzeSingleChunk results so far
  attempt,    \* callGemini's loop variable
  last,       \* how the latest attempt of the current callGemini ended
  fetches,    \* model calls the request has issued
  resp,       \* responses sent for the request
  chunks,     \* number of chunks chunkText made (ids 0..chunks-1)
  mapping,    \* categoryMapping
  cpc,        \* per category: extraction "off", "call", "wait", "done"
  cattempt,   \* per category: callGemini's loop variable
  citems,     \* per category: what extractCategoryItems returned
  clast,      \* per category: "none", or its callGemini "ok" / "failed"
  classification, \* what the classification callGemini returned or threw
  upload,     \* what the request uploaded ("document": a PDF or a DOCX)
  textLen,    \* characters of text extracted from the upload, -1 before
  browser,    \* the browser client: App's page, Landing's state, localStorage
  store       \* the client's useAnalysisStore

govVars == <<elapsed, early>>
fileVars == <<tempFile, unlinks>>
callVars == <<attempt, last, fetches>>
nodeVars == <<windows, results>>
inputVars == <<upload, textLen>>
edgeVars == <<chunks, mapping, cpc, cattempt, citems, clast, classification>>
clientVars == <<browser, store>>
vars == <<env, elapsed, pc, tempFile, unlinks, early, windows, results, attempt,
          last, fetches, resp, chunks, mapping, cpc, cattempt, citems, clast,
          classification, upload, textLen, browser, store>>

Reqs == 1..MaxReqs

\* Sample lengths of the extracted text, in characters.
TextLengths == {40, 30000, 90000, 120000}

Ceil(a, b) == (a + b - 1) \div b

\* analyzeWithGemini: one window up to maxChars, else chunkSize-sized
\* windows, at most 2 (api) or 3 (server).
NumWindows(v, length) ==
  IF v = "api"
  THEN IF length <= ApiMaxChars THEN 1
       ELSE Min(Ceil(length, ApiChunkSize), ApiMaxWindows)
  ELSE IF length <= ServerMaxChars THEN 1
       ELSE Min(Ceil(length, ServerChunkSize), ServerMaxWindows)

\* No callGemini has settled yet.
NoCall == [ok |-> FALSE, error |-> <<>>]

InitRequests ==
  /\ elapsed = MIN_REQUEST_INTERVAL
  /\ pc = [r \in Reqs |-> "new"]
  /\ tempFile = [r \in Reqs |-> "none"]
  /\ unlinks = [r \in Reqs |-> 0]
  /\ early = [r \in Reqs |-> FALSE]
  /\ windows = [r \in Reqs |-> 0]
  /\ results = [r \in Reqs |-> <<>>]
  /\ attempt = [r \in Reqs |-> 0]
  /\ last = [r \in Reqs |-> "none"]
  /\ fetches = [r \in Reqs |-> 0]
  /\ resp = [r \in Reqs |-> <<>>]
  /\ chunks = [r \in Reqs |-> 0]
  /\ mapping = [r \in Reqs |-> [c \in CATEGORIES |-> {}]]
  /\ cpc = [r \in Reqs |-> [c \in CATEGORIES |-> "off"]]
  /\ cattempt = [r \in Reqs |-> [c \in CATEGORIES |-> 0]]
  /\ citems = [r \in Reqs |-> [c \in CATEGORIES |-> <<>>]]
  /\ clast = [r \in Reqs |-> [c \in CATEGORIES |-> "none"]]
  /\ classification = [r \in Reqs |-> NoCall]
  /\ upload = [r \in Reqs |-> "none"]
  /\ textLen = [r \in Reqs |-> -1]
  /\ browser = FreshBrowser
  /\ store = EmptyStore

\* One request against any of the four deployments, every reply possible.
Init ==
  /\ env \in [variant : Variants, apiKey : BOOLEAN, reqs : {{1}}, replies : {"all"}]
  /\ InitRequests

\* Several requests against one instance of api/analyze.ts.
GovInit ==
  /\ env = [variant |-> "api", apiKey |-> TRUE, reqs |-> Reqs, replies |-> "few"]
  /\ InitRequests

----------------------------------------------------------------------------
(* What the model service may answer *)

ReplyStatuses == IF env.replies = "all" THEN Statuses ELSE {"ok", "s429"}
EmptyAnalysis == Json([categories |-> Obj(CategoriesObject(Arr(<<>>), Arr(<<>>)))])

\* Replies to the windows of a text that is analysed in several windows: one
\* item under polity, a string there, or no JSON at all.
WindowOutputs ==
  {NoJson, Json([categories |-> Obj(CategoriesObject(Str, Arr(<<>>)))])}
  \cup {Json([categories |-> Obj(CategoriesObject(Arr(<<x>>), Arr(<<>>)))]) : x \in ApiItems}

ApiReplies(r) ==
  IF env.replies # "all" THEN {EmptyAnalysis}
  ELSE IF windows[r] = 1 THEN ApiOutputs
  ELSE WindowOutputs

----------------------------------------------------------------------------
(* Responses *)

Success(doc) == [success |-> TRUE, status |-> 200, data |-> doc]
Failure(status, message) == [success |-> FALSE, status |-> status, error |-> message]

NoFileMessage == <<"No", SP, "file", SP, "uploaded">>
UnsupportedMessage == <<"Unsupported", SP, "file", SP, "type">>
NoTextMessage == <<"No", SP, "text", SP, "extracted", SP, "from", SP, "document">>
NoKeyMessage == <<"GEMINI_API_KEY", SP, "not", SP, "configured">>
ParserMessage == <<"Invalid", SP, "PDF", SP, "structure">>

\* The handlers with a finally block that unlinks the upload.
HasFinally(v) == v \in {"api", "server2"}

\* A handler that finishes without answering.
EndSilently(r, response, file, unlinked) ==
  LET unlinkNow == HasFinally(env.variant) /\ file = "exists"
  IN /\ resp' = resp
     /\ pc' = [pc EXCEPT ![r] = "done"]
     /\ tempFile' = [tempFile EXCEPT ![r] = IF unlinkNow THEN "deleted" ELSE file]
     /\ unlinks' = [unlinks EXCEPT ![r] = IF unlinkNow THEN unlinked + 1 ELSE unlinked]

\* The handler's last stretch: the response, then (api, server2) the finally
\* block: if (path && fs.existsSync(path)) fs.unlinkSync(path).
End(r, response, file, unlinked) ==
  LET unlinkNow == HasFinally(env.variant) /\ file = "exists"
  IN /\ resp' = [resp EXCEPT ![r] = Append(@, response)]
     /\ pc' = [pc EXCEPT ![r] = "done"]
     /\ tempFile' = [tempFile EXCEPT ![r] = IF unlinkNow THEN "deleted" ELSE file]
     /\ unlinks' = [unlinks EXCEPT ![r] = IF unlinkNow THEN unlinked + 1 ELSE unlinked]

\* A throw inside the handler's try: every handler's catch answers 500.
Throw(r, message, file, unlinked) == End(r, Failure(500, message), file, unlinked)

\* server1 answers a rejected input by `return res.status(400)`; the other
\* two handlers throw.
Reject(r, message, file, unlinked) ==
  IF env.variant = "server1"
  THEN End(r, Failure(400, message), file, unlinked)
  ELSE Throw(r, message, file, unlinked)

----------------------------------------------------------------------------
(* The Node handlers: api/analyze.ts, backend/server.js *)

UploadKinds == {"nofile", "pdf", "docx", "other"}
Uploaded(kind) == IF kind \in {"pdf", "docx"} THEN "document" ELSE kind

\* A POST arrives; the handler runs up to its first await (the parser).
Arrive(r, kind) ==
  /\ env.variant \in NodeVariants
  /\ r \in env.reqs
  /\ pc[r] = "new"
  /\ elapsed' = IF kind \in {"pdf", "docx"} THEN 0 ELSE elapsed
  /\ early' = [early EXCEPT ![r] = elapsed < MIN_REQUEST_INTERVAL]
  /\ CASE kind = "nofile" ->
            IF env.variant = "api"
            THEN Throw(r, NoFileMessage, "none", 0)
            ELSE End(r, Failure(400, NoFileMessage), "none", 0)
       [] kind = "other" ->
            IF env.variant = "server1"
            THEN Reject(r, UnsupportedMessage, "deleted", 1)
            ELSE Throw(r, UnsupportedMessage, "exists", 0)
       [] OTHER ->
            /\ pc' = [pc EXCEPT ![r] = "extract"]
            /\ tempFile' = [tempFile EXCEPT ![r] = "exists"]
            /\ UNCHANGED <<unlinks, resp>>
  /\ upload' = [upload EXCEPT ![r] = Uploaded(kind)]
  /\ UNCHANGED <<env, clientVars, textLen, nodeVars, callVars, edgeVars>>

\* pdfParse / mammoth rejects.
ExtractFails(r) ==
  /\ env.variant \in NodeVariants
  /\ pc[r] = "extract"
  /\ Throw(r, ParserMessage, tempFile[r], unlinks[r])
  /\ UNCHANGED <<env, clientVars, inputVars, govVars, nodeVars, callVars, edgeVars>>

\* A handler without the check of the text's length.
ExtractDoneUnchecked(r, length) ==
  LET v == env.variant
      file == IF v = "server1" THEN "deleted" ELSE tempFile[r]
      unlinked == IF v = "server1" THEN unlinks[r] + 1 ELSE unlinks[r]
  IN /\ v \in NodeVariants
     /\ pc[r] = "extract"
     /\ IF FALSE
        THEN /\ Reject(r, NoTextMessage, file, unlinked)
             /\ UNCHANGED <<nodeVars, callVars>>
        ELSE IF ~env.apiKey
        THEN /\ Throw(r, NoKeyMessage, file, unlinked)
             /\ UNCHANGED <<nodeVars, callVars>>
        ELSE /\ pc' = [pc EXCEPT ![r] = "call"]
             /\ tempFile' = [tempFile EXCEPT ![r] = file]
             /\ unlinks' = [unlinks EXCEPT ![r] = unlinked]
             /\ windows' = [windows EXCEPT ![r] = NumWindows(v, length)]
             /\ results' = [results EXCEPT ![r] = <<>>]
             /\ attempt' = [attempt EXCEPT ![r] = 0]
             /\ last' = [last EXCEPT ![r] = "none"]
             /\ fetches' = [fetches EXCEPT ![r] = @ + 1]
             /\ UNCHANGED resp
     /\ textLen' = [textLen EXCEPT ![r] = length]
     /\ UNCHANGED <<env, clientVars, upload, govVars, edgeVars>>

\* The parser resolves with `length` characters of text; server1 unlinks
\* the upload here.  Then the length and key checks, then the first fetch.
ExtractDone(r, length) ==
  LET v == env.variant
      file == IF v = "server1" THEN "deleted" ELSE tempFile[r]
      unlinked == IF v = "server1" THEN unlinks[r] + 1 ELSE unlinks[r]
  IN /\ v \in NodeVariants
     /\ pc[r] = "extract"
     /\ IF length < MinTextLength
        THEN /\ Reject(r, NoTextMessage, file, unlinked)
             /\ UNCHANGED <<nodeVars, callVars>>
        ELSE IF ~env.apiKey
        THEN /\ Throw(r, NoKeyMessage, file, unlinked)
             /\ UNCHANGED <<nodeVars, callVars>>
        ELSE /\ pc' = [pc EXCEPT ![r] = "call"]
             /\ tempFile' = [tempFile EXCEPT ![r] = file]
             /\ unlinks' = [unlinks EXCEPT ![r] = unlinked]
             /\ windows' = [windows EXCEPT ![r] = NumWindows(v, length)]
             /\ results' = [results EXCEPT ![r] = <<>>]
             /\ attempt' = [attempt EXCEPT ![r] = 0]
             /\ last' = [last EXCEPT ![r] = "none"]
             /\ fetches' = [fetches EXCEPT ![r] = @ + 1]
             /\ UNCHANGED resp
     /\ textLen' = [textLen EXCEPT ![r] = length]
     /\ UNCHANGED <<env, clientVars, upload, govVars, edgeVars>>

\* callGemini has returned or thrown: analyzeSingleChunk makes the window's
\* result; the next window's callGemini starts, or the handler finishes.
WindowDone(r, call, st) ==
  LET v == env.variant
      rs == Append(results[r], analyzeSingleChunk(v, call))
  IN /\ results' = [results EXCEPT ![r] = rs]
     /\ IF Len(rs) < windows[r]
        THEN /\ attempt' = [attempt EXCEPT ![r] = 0]
             /\ last' = [last EXCEPT ![r] = "none"]
             /\ fetches' = [fetches EXCEPT ![r] = @ + 1]
             /\ UNCHANGED <<pc, resp, fileVars>>
        ELSE /\ last' = [last EXCEPT ![r] = st]
             /\ UNCHANGED <<attempt, fetches>>
             /\ IF windows[r] = 1
                THEN End(r, Success(rs[1]), tempFile[r], unlinks[r])
                ELSE IF mergeThrows(rs)
                THEN Throw(r, TypeErrorMessage, tempFile[r], unlinks[r])
                ELSE End(r, Success(mergeAnalysisResults(v, rs)), tempFile[r], unlinks[r])

\* The fetch in flight is answered 200 with a candidate text.
CallSucceeds(r, text) ==
  /\ env.variant \in NodeVariants
  /\ pc[r] = "call"
  /\ "ok" \in ReplyStatuses
  /\ WindowDone(r, [ok |-> TRUE, text |-> text], "ok")
  /\ UNCHANGED <<env, clientVars, inputVars, govVars, windows, edgeVars>>

\* The fetch in flight fails (status, abort, no candidate): the catch block
\* rethrows on the last attempt and otherwise waits before the next one.
CallFails(r, st) ==
  LET v == env.variant
  IN /\ v \in NodeVariants
     /\ pc[r] = "call"
     /\ IF GivesUp(attempt[r], Retries(v))
        THEN WindowDone(r, [ok |-> FALSE, error |-> AttemptError(v, st)], st)
        ELSE /\ pc' = [pc EXCEPT ![r] = "backoff"]
             /\ last' = [last EXCEPT ![r] = st]
             /\ UNCHANGED <<attempt, fetches, results, resp, fileVars>>
     /\ UNCHANGED <<env, clientVars, inputVars, govVars, windows, edgeVars>>

\* The backoff timer fires: attempt++ and the next fetch.
Backoff(r) ==
  /\ env.variant \in NodeVariants
  /\ pc[r] = "backoff"
  /\ pc' = [pc EXCEPT ![r] = "call"]
  /\ attempt' = [attempt EXCEPT ![r] = @ + 1]
  /\ fetches' = [fetches EXCEPT ![r] = @ + 1]
  /\ UNCHANGED <<env, clientVars, inputVars, govVars, fileVars, nodeVars, last, resp, edgeVars>>

\* A second of wall-clock time passes.
Tick ==
  /\ elapsed < MIN_REQUEST_INTERVAL
  /\ elapsed' = elapsed + 1
  /\ UNCHANGED <<env, clientVars, inputVars, pc, tempFile, unlinks, early, windows, results, attempt,
                 last, fetches, resp, chunks, mapping, cpc, cattempt, citems, clast,
                 classification>>

NodeNext ==
  \E r \in Reqs :
     \/ \E kind \in UploadKinds : Arrive(r, kind)
     \/ ExtractFails(r)
     \/ \E length \in TextLengths : ExtractDone(r, length)
     \/ \E text \in ApiReplies(r) : CallSucceeds(r, text)
     \/ \E st \in ReplyStatuses \ {"ok"} : CallFails(r, st)
     \/ Backoff(r)

GovNext == Tick \/ NodeNext

GovSpec == GovInit /\ [][GovNext]_vars

----------------------------------------------------------------------------
(* The two-phase function: unnamed/part_008 *)

EdgeUploadKinds == {"notmultipart", "nofile", "toobig", "pdf", "docx", "other"}

ContentTypeMessage == <<"Content-Type", SP, "must", SP, "be", SP, "multipart/form-data">>
NoFileProvidedMessage == <<"No", SP, "file", SP, "provided">>
TooBigMessage == <<"File", SP, "exceeds", SP, "50MB", SP, "limit">>
EmptyFileMessage == <<"PDF", SP, "extraction", SP, "failed", SP, "or", SP, "file", SP, "is", SP, "empty">>
NoChunksMessage == <<"No", SP, "valid", SP, "text", SP, "chunks", SP, "extracted">>

\* Sample lengths of the sanitized text, in characters.
EdgeTextLengths == {40, 3000}

ChunkIds(r) == 0..(chunks[r] - 1)
Active(r) == {c \in CATEGORIES : mapping[r][c] # {}}

\* More categories are active than a classification reply names: the
\* fallback mapping.  There every category fetch is answered, with one item
\* above the confidence floor and one below it.
Wide(r) == Cardinality(Active(r)) > Cardinality(ClassifierNames \cap CATEGORIES)

PaddedItem == CHOOSE e \in EdgeItems : e.title = Undef
LowItem == CHOOSE e \in EdgeItems : e.confidence = Num(30)
EdgeReplies(r) ==
  IF env.replies = "all" /\ ~Wide(r) THEN EdgeOutputs
  ELSE {Json([items |-> Arr(<<PaddedItem, LowItem>>)])}
EdgeFailures(r) ==
  IF env.replies = "all" /\ ~Wide(r) THEN Failures ELSE {}

\* A request arrives; the function runs up to the text extraction.
ArriveEdge(r, kind) ==
  /\ env.variant = "edge"
  /\ r \in env.reqs
  /\ pc[r] = "new"
  /\ elapsed' = IF kind \in {"pdf", "docx"} THEN 0 ELSE elapsed
  /\ early' = [early EXCEPT ![r] = elapsed < MIN_REQUEST_INTERVAL]
  /\ CASE kind = "notmultipart" -> End(r, Failure(400, ContentTypeMessage), "none", 0)
       [] kind = "nofile" -> End(r, Failure(400, NoFileProvidedMessage), "none", 0)
       [] kind = "toobig" -> End(r, Failure(400, TooBigMessage), "none", 0)
       [] kind = "other" -> End(r, Failure(400, UnsupportedMessage), "none", 0)
       [] OTHER -> /\ pc' = [pc EXCEPT ![r] = "extract"]
                   /\ UNCHANGED <<resp, fileVars>>
  /\ upload' = [upload EXCEPT ![r] = Uploaded(kind)]
  /\ UNCHANGED <<env, clientVars, textLen, nodeVars, callVars, edgeVars>>

\* pdfParse / mammoth rejects inside extractTextFromPDF / extractTextFromDOCX.
ExtractFailsEdge(r) ==
  /\ env.variant = "edge"
  /\ pc[r] = "extract"
  /\ Throw(r, ParserMessage, tempFile[r], unlinks[r])
  /\ UNCHANGED <<env, clientVars, inputVars, govVars, nodeVars, callVars, edgeVars>>

\* The parser resolves with `length` characters of text: extractTextFromPDF
\* throws below 50 characters; otherwise chunkText makes n chunks of the
\* pages; then the checks, then the classification prompt is sent.
ExtractDoneEdge(r, length, n) ==
  /\ env.variant = "edge"
  /\ pc[r] = "extract"
  /\ length < MinTextLength => n = 0
  /\ textLen' = [textLen EXCEPT ![r] = length]
  /\ IF length < MinTextLength
     THEN /\ Throw(r, EmptyFileMessage, tempFile[r], unlinks[r])
          /\ UNCHANGED <<callVars, chunks>>
     ELSE IF n = 0
     THEN /\ End(r, Failure(400, NoChunksMessage), tempFile[r], unlinks[r])
          /\ UNCHANGED <<callVars, chunks>>
     ELSE IF ~env.apiKey
     THEN /\ End(r, Failure(500, NoKeyMessage), tempFile[r], unlinks[r])
          /\ UNCHANGED <<callVars, chunks>>
     ELSE /\ pc' = [pc EXCEPT ![r] = "classify"]
          /\ chunks' = [chunks EXCEPT ![r] = n]
          /\ attempt' = [attempt EXCEPT ![r] = 0]
          /\ last' = [last EXCEPT ![r] = "none"]
          /\ fetches' = [fetches EXCEPT ![r] = @ + 1]
          /\ UNCHANGED <<resp, fileVars>>
  /\ UNCHANGED <<env, clientVars, upload, govVars, nodeVars, mapping, cpc, cattempt, citems, clast, classification>>

\* An extraction is started for every category, with or without chunks.
ClassifiedAll(r, call, st) ==
  LET m == classifyPagesForCategories(call, ChunkIds(r))
  IN /\ mapping' = [mapping EXCEPT ![r] = m]
     /\ cpc' = [cpc EXCEPT ![r] = [c \in CATEGORIES |-> "call"]]
     /\ cattempt' = [cattempt EXCEPT ![r] = [c \in CATEGORIES |-> 0]]
     /\ pc' = [pc EXCEPT ![r] = "extracting"]
     /\ last' = [last EXCEPT ![r] = "none"]
     /\ fetches' = [fetches EXCEPT ![r] = @ + Cardinality(CATEGORIES)]
     /\ classification' = [classification EXCEPT ![r] = call]
     /\ UNCHANGED <<attempt, citems, clast>>

\* classifyPagesForCategories has its mapping; performTwoPhaseAnalysis
\* starts extractCategoryItems for every active category, each up to its fetch.
Classified(r, call, st) ==
  LET m == classifyPagesForCategories(call, ChunkIds(r))
      active == {c \in CATEGORIES : m[c] # {}}
  IN /\ mapping' = [mapping EXCEPT ![r] = m]
     /\ cpc' = [cpc EXCEPT ![r] = [c \in CATEGORIES |-> IF c \in active THEN "call" ELSE "off"]]
     /\ cattempt' = [cattempt EXCEPT ![r] = [c \in CATEGORIES |-> 0]]
     /\ pc' = [pc EXCEPT ![r] = "extracting"]
     /\ last' = [last EXCEPT ![r] = "none"]
     /\ fetches' = [fetches EXCEPT ![r] = @ + Cardinality(active)]
     /\ classification' = [classification EXCEPT ![r] = call]
     /\ UNCHANGED <<attempt, citems, clast>>

ClassifySucceeds(r, text) ==
  /\ env.variant = "edge"
  /\ pc[r] = "classify"
  /\ Classified(r, [ok |-> TRUE, text |-> text], "ok")
  /\ UNCHANGED <<env, clientVars, inputVars, govVars, nodeVars, fileVars, resp, chunks>>

ClassifyFails(r, st) ==
  /\ env.variant = "edge"
  /\ pc[r] = "classify"
  /\ IF GivesUp(attempt[r], Retries("edge"))
     THEN Classified(r, [ok |-> FALSE, error |-> AttemptError("edge", st)], st)
     ELSE /\ pc' = [pc EXCEPT ![r] = "classifyWait"]
          /\ last' = [last EXCEPT ![r] = st]
          /\ UNCHANGED <<attempt, fetches, mapping, cpc, cattempt, citems, clast, classification>>
  /\ UNCHANGED <<env, clientVars, inputVars, govVars, nodeVars, fileVars, resp, chunks>>

\* The 400 ms timer fires: attempt++ and the next fetch.
ClassifyBackoff(r) ==
  /\ env.variant = "edge"
  /\ pc[r] = "classifyWait"
  /\ pc' = [pc EXCEPT ![r] = "classify"]
  /\ attempt' = [attempt EXCEPT ![r] = @ + 1]
  /\ fetches' = [fetches EXCEPT ![r] = @ + 1]
  /\ UNCHANGED <<env, clientVars, inputVars, govVars, nodeVars, fileVars, resp, last, edgeVars>>

\* An extraction that, settling empty, discards what its siblings returned.
ExtractedAborting(r, c, items) ==
  /\ cpc' = [cpc EXCEPT ![r][c] = "done"]
  /\ citems' = [citems EXCEPT ![r] = IF items = <<>> THEN [d \in CATEGORIES |-> <<>>]
                                     ELSE [citems[r] EXCEPT ![c] = items]]
  /\ UNCHANGED <<cattempt, fetches>>

\* extractCategoryItems(c) settles with `items`.
Extracted(r, c, items) ==
  /\ cpc' = [cpc EXCEPT ![r][c] = "done"]
  /\ citems' = [citems EXCEPT ![r][c] = items]
  /\ UNCHANGED <<cattempt, fetches>>

CategorySucceeds(r, c, text) ==
  /\ env.variant = "edge"
  /\ pc[r] = "extracting"
  /\ cpc[r][c] = "call"
  /\ Extracted(r, c, extractCategoryItems([ok |-> TRUE, text |-> text], mapping[r][c]))
  /\ clast' = [clast EXCEPT ![r][c] = "ok"]
  /\ UNCHANGED <<env, clientVars, inputVars, govVars, nodeVars, fileVars, resp, pc, attempt, last, chunks, mapping,
                 classification>>

\* The fetch of category c fails: on the last attempt extractCategoryItems
\* catches the error and returns []; otherwise the 400 ms wait, attempt++ and
\* the next fetch follow.
CategoryFails(r, c, st) ==
  /\ env.variant = "edge"
  /\ pc[r] = "extracting"
  /\ cpc[r][c] = "call"
  /\ IF GivesUp(cattempt[r][c], Retries("edge"))
     THEN Extracted(r, c, extractCategoryItems([ok |-> FALSE, error |-> AttemptError("edge", st)],
                                               mapping[r][c]))
     ELSE /\ cattempt' = [cattempt EXCEPT ![r][c] = @ + 1]
          /\ fetches' = [fetches EXCEPT ![r] = @ + 1]
          /\ UNCHANGED <<cpc, citems>>
  /\ clast' = [clast EXCEPT ![r][c] = "failed"]
  /\ UNCHANGED <<env, clientVars, inputVars, govVars, nodeVars, fileVars, resp, pc, attempt, last, chunks, mapping,
                 classification>>

\* A join that resolves as soon as one extraction has settled.
AssembleEarly(r) ==
  /\ env.variant = "edge"
  /\ pc[r] = "extracting"
  /\ \E c \in CATEGORIES : cpc[r][c] = "done"
  /\ End(r, Success(assemble(citems[r], chunks[r])), tempFile[r], unlinks[r])
  /\ UNCHANGED <<env, clientVars, inputVars, govVars, nodeVars, callVars, edgeVars>>

\* Promise.allSettled resolves: the document is assembled and returned.
Assemble(r) ==
  /\ env.variant = "edge"
  /\ pc[r] = "extracting"
  /\ \A c \in CATEGORIES : cpc[r][c] \in {"off", "done"}
  /\ End(r, Success(assemble(citems[r], chunks[r])), tempFile[r], unlinks[r])
  /\ UNCHANGED <<env, clientVars, inputVars, govVars, nodeVars, callVars, edgeVars>>

EdgeNext ==
  \E r \in Reqs :
     \/ \E kind \in EdgeUploadKinds : ArriveEdge(r, kind)
     \/ ExtractFailsEdge(r)
     \/ \E length \in EdgeTextLengths, n \in 0..MaxPages : ExtractDoneEdge(r, length, n)
     \/ \E text \in ClassifierOutputs(ChunkIds(r)) : ClassifySucceeds(r, text)
     \/ \E st \in Failures : ClassifyFails(r, st)
     \/ ClassifyBackoff(r)
     \/ \E c \in CATEGORIES :
          \/ \E text \in EdgeReplies(r) : CategorySucceeds(r, c, text)
          \/ \E st \in EdgeFailures(r) : CategoryFails(r, c, st)
     \/ Assemble(r)

Next == NodeNext \/ EdgeNext

Spec == Init /\ [][Next]_vars

----------------------------------------------------------------------------
(* mergeAnalysisResults applied to its own result *)

\* Items of window results: what processNewsItems returns in api/analyze.ts,
\* the model's raw items in backend/server.js.  "A" and "a" share a
\* normalized title; "a" and "B" share a score.
MergeRawItems ==
  {i \in ApiItems : IsArray(i.points)}
  \cup { [title |-> Text(<<"B">>), points |-> Arr(<<Words5>>), confidence |-> Num(30)],
         [title |-> Text(<<"C">>), points |-> Arr(<<Words2>>), confidence |-> Undef] }

MergeItems(v) == IF v = "api" THEN {processItem(i) : i \in MergeRawItems} ELSE MergeRawItems

\* What analyzeSingleChunk can return for one window: a document, the
\* fallback document, or (backend/server.js) a document with a string
\* where a list belongs.
WindowResults(v) ==
  {[categories |-> [c \in CATEGORIES |-> IF c = "polity" THEN Arr(l) ELSE Arr(<<>>)]] :
      l \in SeqsUpTo(MergeItems(v), MaxApiItems)}
  \cup {Fallback(v, NoJsonMessage)}
  \cup (IF v = "api" THEN {}
        ELSE {[categories |-> [c \in CATEGORIES |-> IF c = "polity" THEN Str ELSE Arr(<<>>)]]})

MergeInit ==
  /\ env \in [variant : NodeVariants, apiKey : {TRUE}, reqs : {{1}}, replies : {"all"}]
  /\ elapsed = MIN_REQUEST_INTERVAL
  /\ pc = [r \in Reqs |-> IF r = 1 THEN "merging" ELSE "new"]
  /\ results \in {[r \in Reqs |-> IF r = 1 THEN R ELSE <<>>] :
                    R \in SeqsUpTo(WindowResults(env.variant), ApiMaxWindows) \ {<<>>}}
  /\ tempFile = [r \in Reqs |-> "none"]
  /\ unlinks = [r \in Reqs |-> 0]
  /\ early = [r \in Reqs |-> FALSE]
  /\ windows = [r \in Reqs |-> IF r = 1 THEN Len(results[r]) ELSE 0]
  /\ attempt = [r \in Reqs |-> 0]
  /\ last = [r \in Reqs |-> "none"]
  /\ fetches = [r \in Reqs |-> 0]
  /\ resp = [r \in Reqs |-> <<>>]
  /\ chunks = [r \in Reqs |-> 0]
  /\ mapping = [r \in Reqs |-> [c \in CATEGORIES |-> {}]]
  /\ cpc = [r \in Reqs |-> [c \in CATEGORIES |-> "off"]]
  /\ cattempt = [r \in Reqs |-> [c \in CATEGORIES |-> 0]]
  /\ citems = [r \in Reqs |-> [c \in CATEGORIES |-> <<>>]]
  /\ clast = [r \in Reqs |-> [c \in CATEGORIES |-> "none"]]
  /\ classification = [r \in Reqs |-> NoCall]
  /\ upload = [r \in Reqs |-> "none"]
  /\ textLen = [r \in Reqs |-> -1]
  /\ browser = FreshBrowser
  /\ store = EmptyStore

\* mergeAnalysisResults(R): resp[r] collects what the calls return.
MergeFirst(r) ==
  /\ pc[r] = "merging"
  /\ IF mergeThrows(results[r])
     THEN pc' = [pc EXCEPT ![r] = "threw"] /\ UNCHANGED resp
     ELSE /\ pc' = [pc EXCEPT ![r] = "merged"]
          /\ resp' = [resp EXCEPT ![r] = <<mergeAnalysisResults(env.variant, results[r])>>]
  /\ UNCHANGED <<env, clientVars, results, windows, govVars, fileVars, attempt, last, fetches, edgeVars, inputVars>>

\* mergeAnalysisResults([mergeAnalysisResults(R)])
MergeAgain(r) ==
  /\ pc[r] = "merged"
  /\ pc' = [pc EXCEPT ![r] = "remerged"]
  /\ resp' = [resp EXCEPT ![r] = Append(@, mergeAnalysisResults(env.variant, <<resp[r][1]>>))]
  /\ UNCHANGED <<env, clientVars, results, windows, govVars, fileVars, attempt, last, fetches, edgeVars, inputVars>>

MergeNext == \E r \in env.reqs : MergeFirst(r) \/ MergeAgain(r)

MergeSpec == MergeInit /\ [][MergeNext]_vars

----------------------------------------------------------------------------
(* chunkText: unnamed/part_008 *)

\* A page text is a sequence of tokens as before; a token stands for this
\* many characters.  "w" is a short word, "W" and "H" are long ones, "<b>" is
\* a tag.  All whitespace is the space, so sanitizeText's rules about line
\* breaks have nothing to act on.
CharLen(tok) ==
  CASE tok = "w" -> 9
    [] tok = "W" -> 98
    [] tok = "H" -> 240
    [] tok = "<b>" -> 3
    [] OTHER -> 1

RECURSIVE SumLen(_, _)
SumLen(t, toks) ==
  IF toks = {} THEN 0
  ELSE LET tok == CHOOSE x \in toks : TRUE
       IN CharLen(tok) * Cardinality({i \in 1..Len(t) : t[i] = tok}) + SumLen(t, toks \ {tok})

\* text.length
length(t) == SumLen(t, {t[i] : i \in 1..Len(t)})

RECURSIVE trimStart(_)
trimStart(t) == IF t # <<>> /\ Head(t) = SP THEN trimStart(Tail(t)) ELSE t

RECURSIVE trimEnd(_)
trimEnd(t) ==
  IF t # <<>> /\ t[Len(t)] = SP THEN trimEnd(SubSeq(t, 1, Len(t) - 1)) ELSE t

trim(t) == trimEnd(trimStart(t))

\* .replace(/<[^>]*>/g, '').trim()
sanitizeText(text) == trim(SelectSeq(text, LAMBDA tok : tok # "<b>"))

Terminators == {".", "!", "?"}

\* Where t has a terminator followed by whitespace.
SeparatorStarts(t) == {i \in 1..(Len(t) - 1) : t[i] \in Terminators /\ t[i + 1] = SP}

\* sanitized.split(/[.!?]\s+/): a terminator and all the whitespace behind it
\* separate two pieces and belong to neither.
RECURSIVE SentencesFrom(_, _, _)
SentencesFrom(t, i, acc) ==
  LET ahead == {j \in SeparatorStarts(t) : j >= i}
  IN IF ahead = {} THEN Append(acc, SubSeq(t, i, Len(t)))
     ELSE LET j == CHOOSE x \in ahead : \A y \in ahead : x <= y
          IN SentencesFrom(t, SkipSpaces(t, j + 1), Append(acc, SubSeq(t, i, j - 1)))

splitSentences(t) == SentencesFrom(t, 1, <<>>)

\* A sentence put back without its terminator.
sentenceBare(sentences, i) == sentences[i]

\* sentences[i] + (i < sentences.length - 1 ? ". " : "")
sentenceAt(sentences, i) ==
  sentences[i] \o (IF i < Len(sentences) THEN <<".", SP>> ELSE <<>>)

\* The excerpt of a chunk is left out: nothing below reads it.
Chunk(id, page, text, wordCount) ==
  [id |-> id, page |-> page, text |-> text, wordCount |-> wordCount]

\* The loop over the sentences of a page longer than the ceiling, and the
\* flush behind it.
RECURSIVE splitPage(_, _, _, _, _, _, _)
splitPage(sentences, i, currentChunk, currentWords, page, chunkId, out) ==
  IF i > Len(sentences)
  THEN IF trim(currentChunk) # <<>>
       THEN Append(out, Chunk(chunkId, page, trim(currentChunk), currentWords))
       ELSE out
  ELSE LET sentence == sentenceAt(sentences, i)
           sentenceWords == countWords(sentence)
       IN IF length(currentChunk) + length(sentence) > MAX_CHARS_PER_CHUNK
             /\ currentChunk # <<>>
          THEN splitPage(sentences, i + 1, sentence, sentenceWords, page, chunkId + 1,
                         Append(out, Chunk(chunkId, page, trim(currentChunk), currentWords)))
          ELSE splitPage(sentences, i + 1, currentChunk \o sentence,
                         currentWords + sentenceWords, page, chunkId, out)

\* A page is skipped one word too early.
skipsPageInclusive(wordCount) == wordCount <= MIN_WORDS_PER_CHUNK

\* if (wordCount < MIN_WORDS_PER_CHUNK) continue
skipsPage(wordCount) == wordCount < MIN_WORDS_PER_CHUNK

\* One turn of chunkText's loop over the pages: the chunks it pushes.
chunkPage(page, text, chunkId) ==
  LET sanitized == sanitizeText(text)
      wordCount == countWords(sanitized)
  IN IF skipsPage(wordCount) THEN <<>>
     ELSE IF length(sanitized) <= MAX_CHARS_PER_CHUNK
          THEN <<Chunk(chunkId, page, sanitized, wordCount)>>
          ELSE splitPage(splitSentences(sanitized), 1, <<>>, 0, page, chunkId, <<>>)

RECURSIVE chunkFrom(_, _, _, _)
chunkFrom(pages, i, chunkId, out) ==
  IF i > Len(pages) THEN out
  ELSE LET pushed == chunkPage(pages[i].page, pages[i].text, chunkId)
       IN chunkFrom(pages, i + 1, chunkId + Len(pushed), out \o pushed)

chunkText(pages) == chunkFrom(pages, 1, 0, <<>>)

\* Bodies: three short words behind a tag (29 characters); ten long words
\* (989 characters); ten longer ones (2409 characters).  Two bodies are
\* two sentences, or parts of one.
RECURSIVE Repeat(_, _)
Repeat(tok, n) == IF n = 1 THEN <<tok>> ELSE <<tok, SP>> \o Repeat(tok, n - 1)

SentenceBodies == {<<"<b>">> \o Repeat("w", 3), Repeat("W", 10), Repeat("H", 10)}
Separators == {<<".", SP>>, <<"?", SP, SP>>, <<SP>>}

RECURSIVE TextsOf(_)
TextsOf(n) ==
  IF n = 1 THEN SentenceBodies
  ELSE {b \o sep \o t : b \in SentenceBodies, sep \in Separators, t \in TextsOf(n - 1)}

\* Raw page texts: one to MaxSentences bodies, the last one with or
\* without its full stop, between two spaces that sanitizeText trims.
PageTexts ==
  {<<SP>> \o t \o end \o <<SP>> :
      t \in UNION {TextsOf(n) : n \in 1..MaxSentences}, end \in {<<>>, <<".">>}}

\* The pages in front of the last one: ten words, or twenty in two sentences.
LeadTexts == {Repeat("W", 10), Repeat("W", 10) \o <<".", SP>> \o Repeat("W", 10)}

\* extractTextFromPDF numbers the pages from 1.
Pages(texts) == [i \in 1..Len(texts) |-> [page |-> i, text |-> texts[i]]]

PageLists ==
  {Pages(Append(lead, t)) : lead \in SeqsUpTo(LeadTexts, MaxPages - 1), t \in PageTexts}

ChunkInit ==
  /\ env = [variant |-> "edge", apiKey |-> TRUE, reqs |-> {1}, replies |-> "all"]
  /\ elapsed = MIN_REQUEST_INTERVAL
  /\ pc = [r \in Reqs |-> IF r = 1 THEN "chunking" ELSE "new"]
  /\ results \in {[r \in Reqs |-> IF r = 1 THEN pages ELSE <<>>] : pages \in PageLists}
  /\ tempFile = [r \in Reqs |-> "none"]
  /\ unlinks = [r \in Reqs |-> 0]
  /\ early = [r \in Reqs |-> FALSE]
  /\ windows = [r \in Reqs |-> 0]
  /\ attempt = [r \in Reqs |-> 0]
  /\ last = [r \in Reqs |-> "none"]
  /\ fetches = [r \in Reqs |-> 0]
  /\ resp = [r \in Reqs |-> <<>>]
  /\ chunks = [r \in Reqs |-> 0]
  /\ mapping = [r \in Reqs |-> [c \in CATEGORIES |-> {}]]
  /\ cpc = [r \in Reqs |-> [c \in CATEGORIES |-> "off"]]
  /\ cattempt = [r \in Reqs |-> [c \in CATEGORIES |-> 0]]
  /\ citems = [r \in Reqs |-> [c \in CATEGORIES |-> <<>>]]
  /\ clast = [r \in Reqs |-> [c \in CATEGORIES |-> "none"]]
  /\ classification = [r \in Reqs |-> NoCall]
  /\ upload = [r \in Reqs |-> "none"]
  /\ textLen = [r \in Reqs |-> -1]
  /\ browser = FreshBrowser
  /\ store = EmptyStore

\* const chunks = chunkText(pages): results[r] holds the pages, resp[r] the
\* chunks, chunks[r] their number.
ChunkText(r) ==
  /\ pc[r] = "chunking"
  /\ pc' = [pc EXCEPT ![r] = "chunked"]
  /\ LET made == chunkText(results[r])
     IN /\ resp' = [resp EXCEPT ![r] = made]
        /\ chunks' = [chunks EXCEPT ![r] = Len(made)]
  /\ UNCHANGED <<env, clientVars, results, windows, govVars, fileVars, callVars, inputVars,
                 mapping, cpc, cattempt, citems, clast, classification>>

ChunkNext == \E r \in env.reqs : ChunkText(r)

ChunkSpec == ChunkInit /\ [][ChunkNext]_vars

----------------------------------------------------------------------------
(* Locating the JSON object in a reply: response.match and JSON.parse *)

\* A reply is a sequence of tokens: the braces, "k" for a member of an
\* object, "p" for a word of prose, "fence" for a markdown code fence.

\* Opening minus closing braces among the first i tokens.
Depth(t, i) ==
  Cardinality({j \in 1..i : t[j] = "{"}) - Cardinality({j \in 1..i : t[j] = "}"})

Least(S) == CHOOSE x \in S : \A y \in S : x <= y
Greatest(S) == CHOOSE x \in S : \A y \in S : x >= y

NoMatch == [found |-> FALSE, text |-> <<>>]
Match(text) == [found |-> TRUE, text |-> text]

\* response.match(/\{[\s\S]*\}/): from the first opening brace to the last
\* closing brace behind it.
match(t) ==
  LET opens == {i \in 1..Len(t) : t[i] = "{"}
  IN IF opens = {} THEN NoMatch
     ELSE LET first == Least(opens)
              closes == {j \in (first + 1)..Len(t) : t[j] = "}"}
          IN IF closes = {} THEN NoMatch ELSE Match(SubSeq(t, first, Greatest(closes)))

\* JSON.parse accepts s: one object, closed by its last token and by none
\* before it, holding members and objects only.
parses(s) ==
  /\ Len(s) >= 2 /\ s[1] = "{" /\ s[Len(s)] = "}"
  /\ Depth(s, Len(s)) = 0
  /\ \A i \in 1..(Len(s) - 1) : Depth(s, i) > 0
  /\ \A i \in 1..Len(s) : s[i] \in {"{", "}", "k"}

\* const jsonMatch = response.match(...); if (!jsonMatch) throw ...;
\* JSON.parse(jsonMatch[0])
locate(response) ==
  LET jsonMatch == match(response)
  IN IF ~jsonMatch.found THEN NoJson
     ELSE IF ~parses(jsonMatch.text) THEN BadJson
     ELSE Json(jsonMatch.text)

JsonObjects == {<<"{", "}">>, <<"{", "k", "}">>, <<"{", "k", "{", "k", "}", "}">>}
ProseTokens == {"p", "fence", "{", "}"}

\* Replies in three parts: what stands in front of the object, the object,
\* what stands behind it.
ReplyTexts ==
  {<<before, object, behind>> :
      before \in SeqsUpTo(ProseTokens, MaxProse), object \in JsonObjects,
      behind \in SeqsUpTo(ProseTokens, MaxProse)}

LocateInit ==
  /\ env \in [variant : {"api", "edge"}, apiKey : {TRUE}, reqs : {{1}}, replies : {"all"}]
  /\ elapsed = MIN_REQUEST_INTERVAL
  /\ pc = [r \in Reqs |-> IF r = 1 THEN "locating" ELSE "new"]
  /\ results \in {[r \in Reqs |-> IF r = 1 THEN reply ELSE <<>>] : reply \in ReplyTexts}
  /\ tempFile = [r \in Reqs |-> "none"]
  /\ unlinks = [r \in Reqs |-> 0]
  /\ early = [r \in Reqs |-> FALSE]
  /\ windows = [r \in Reqs |-> 0]
  /\ attempt = [r \in Reqs |-> 0]
  /\ last = [r \in Reqs |-> "none"]
  /\ fetches = [r \in Reqs |-> 0]
  /\ resp = [r \in Reqs |-> <<>>]
  /\ chunks = [r \in Reqs |-> 0]
  /\ mapping = [r \in Reqs |-> [c \in CATEGORIES |-> {}]]
  /\ cpc = [r \in Reqs |-> [c \in CATEGORIES |-> "off"]]
  /\ cattempt = [r \in Reqs |-> [c \in CATEGORIES |-> 0]]
  /\ citems = [r \in Reqs |-> [c \in CATEGORIES |-> <<>>]]
  /\ clast = [r \in Reqs |-> [c \in CATEGORIES |-> "none"]]
  /\ classification = [r \in Reqs |-> NoCall]
  /\ upload = [r \in Reqs |-> "none"]
  /\ textLen = [r \in Reqs |-> -1]
  /\ browser = FreshBrowser
  /\ store = EmptyStore

\* The reply of callGemini is searched and parsed: resp[r] holds what came
\* of it.
LocateJson(r) ==
  /\ pc[r] = "locating"
  /\ pc' = [pc EXCEPT ![r] = "located"]
  /\ resp' = [resp EXCEPT ![r] = <<locate(results[r][1] \o results[r][2] \o results[r][3])>>]
  /\ UNCHANGED <<env, clientVars, results, windows, govVars, fileVars, callVars, inputVars, edgeVars>>

LocateNext == \E r \in env.reqs : LocateJson(r)

LocateSpec == LocateInit /\ [][LocateNext]_vars

----------------------------------------------------------------------------
(* processNewsItems on lists of raw items *)

\* Points with 0 to 6 different numeric matches, and one that repeats a match.
NumberTexts ==
  { <<"w">>,
    <<"5%">>,
    <<"5%", SP, "w", SP, "5%">>,
    <<"5%", SP, "7%", SP, "2030">>,
    <<"5%", SP, "7%", SP, "9%", SP, "2030">>,
    <<"5%", SP, "7%", SP, "9%", SP, "2025", SP, "2030">>,
    <<"5%", SP, "7%", SP, "9%", SP, "2025", SP, "2030", SP, "40MW">> }

\* Confidences between 0 and 1 with both ends, and none at all.
ScoreConfidences == {Num(0), Num(30), Num(90), Num(100), Undef}

ScoreItems ==
  { [title |-> Text(<<"A">>), points |-> Arr(<<text>>), confidence |-> c] :
      text \in NumberTexts, c \in ScoreConfidences }

ScoreInit ==
  /\ env \in [variant : {"api"}, apiKey : {TRUE}, reqs : {{1}}, replies : {"all"}]
  /\ elapsed = MIN_REQUEST_INTERVAL
  /\ pc = [r \in Reqs |-> IF r = 1 THEN "scoring" ELSE "new"]
  /\ results \in {[r \in Reqs |-> IF r = 1 THEN items ELSE <<>>] :
                    items \in SeqsUpTo(ScoreItems, MaxScored)}
  /\ tempFile = [r \in Reqs |-> "none"]
  /\ unlinks = [r \in Reqs |-> 0]
  /\ early = [r \in Reqs |-> FALSE]
  /\ windows = [r \in Reqs |-> 0]
  /\ attempt = [r \in Reqs |-> 0]
  /\ last = [r \in Reqs |-> "none"]
  /\ fetches = [r \in Reqs |-> 0]
  /\ resp = [r \in Reqs |-> <<>>]
  /\ chunks = [r \in Reqs |-> 0]
  /\ mapping = [r \in Reqs |-> [c \in CATEGORIES |-> {}]]
  /\ cpc = [r \in Reqs |-> [c \in CATEGORIES |-> "off"]]
  /\ cattempt = [r \in Reqs |-> [c \in CATEGORIES |-> 0]]
  /\ citems = [r \in Reqs |-> [c \in CATEGORIES |-> <<>>]]
  /\ clast = [r \in Reqs |-> [c \in CATEGORIES |-> "none"]]
  /\ classification = [r \in Reqs |-> NoCall]
  /\ upload = [r \in Reqs |-> "none"]
  /\ textLen = [r \in Reqs |-> -1]
  /\ browser = FreshBrowser
  /\ store = EmptyStore

\* processNewsItems(items): resp[r] holds the processed items.
ProcessItems(r) ==
  /\ pc[r] = "scoring"
  /\ pc' = [pc EXCEPT ![r] = "scored"]
  /\ resp' = [resp EXCEPT ![r] = processNewsItems(Arr(results[r])).a]
  /\ UNCHANGED <<env, clientVars, results, windows, govVars, fileVars, callVars, inputVars, edgeVars>>

ScoreNext == \E r \in env.reqs : ProcessItems(r)

ScoreSpec == ScoreInit /\ [][ScoreNext]_vars

----------------------------------------------------------------------------
(* The browser client at work *)

\* Analysis documents as response.json() hands them over: titles and points
\* are strings.  The second one has an empty point.
ClientItem(title, points) == [title |-> title, points |-> points]
ClientDocument(items) ==
  [source_file |-> "f.pdf",
   categories |-> [c \in CATEGORIES |-> IF c = "polity" THEN items ELSE <<>>]]
ClientDocuments ==
  { ClientDocument(<<ClientItem("T", <<"p", "q">>)>>),
    ClientDocument(<<ClientItem("T", <<"">>)>>) }

UploadFiles == {"a.pdf", "b.pdf"}
EditCategories == {"polity", "sports"}
Indices == 0..MaxIndex
ItemIds == {"polity-0"}
NewText == "x"

\* JSON.parse(JSON.stringify(data)): a new value, built field by field from
\* what JSON keeps of the old one.
clone(data) ==
  [source_file |-> data.source_file,
   categories |->
     [c \in DOMAIN data.categories |->
        [i \in 1..Len(data.categories[c]) |->
           [title |-> data.categories[c][i].title,
            points |-> [p \in 1..Len(data.categories[c][i].points) |->
                          data.categories[c][i].points[p]]]]]]

\* categories[categoryKey]?.[itemIndex] and ...?.points?.[pointIndex] are
\* there (indices count from 0).
HasItem(data, category, itemIndex) ==
  /\ category \in DOMAIN data.categories
  /\ itemIndex + 1 \in 1..Len(data.categories[category])
HasPoint(data, category, itemIndex, pointIndex) ==
  /\ HasItem(data, category, itemIndex)
  /\ pointIndex + 1 \in 1..Len(data.categories[category][itemIndex + 1].points)
PointAt(data, category, itemIndex, pointIndex) ==
  data.categories[category][itemIndex + 1].points[pointIndex + 1]

setAnalysis(s, data) ==
  [s EXCEPT !.analysisJSON = data, !.editedJSON = clone(data),
            !.aiRawResponse = [raw |-> data], !.error = FALSE]

updatePoint(s, category, itemIndex, pointIndex, newText) ==
  IF s.editedJSON = Null THEN s
  ELSE LET updatedJSON == clone(s.editedJSON)
       IN IF HasPoint(updatedJSON, category, itemIndex, pointIndex)
          THEN [s EXCEPT !.editedJSON =
                  [updatedJSON EXCEPT
                     !.categories[category][itemIndex + 1].points[pointIndex + 1] = newText]]
          ELSE s

updateTitle(s, category, itemIndex, newTitle) ==
  IF s.editedJSON = Null THEN s
  ELSE LET updatedJSON == clone(s.editedJSON)
       IN IF HasItem(updatedJSON, category, itemIndex)
          THEN [s EXCEPT !.editedJSON =
                  [updatedJSON EXCEPT !.categories[category][itemIndex + 1].title = newTitle]]
          ELSE s

\* `if (originalPoint && ...)`: an original point that is the empty string
\* is falsy, like one that is not there.
revertPoint(s, category, itemIndex, pointIndex) ==
  IF s.analysisJSON = Null \/ s.editedJSON = Null THEN s
  ELSE LET updatedJSON == clone(s.editedJSON)
           found == HasPoint(s.analysisJSON, category, itemIndex, pointIndex)
           originalPoint == IF found
                            THEN PointAt(s.analysisJSON, category, itemIndex, pointIndex)
                            ELSE ""
       IN IF found /\ originalPoint # ""
             /\ HasPoint(updatedJSON, category, itemIndex, pointIndex)
          THEN [s EXCEPT !.editedJSON =
                  [updatedJSON EXCEPT
                     !.categories[category][itemIndex + 1].points[pointIndex + 1] = originalPoint]]
          ELSE s

toggleBookmark(s, itemId) ==
  [s EXCEPT !.bookmarkedItems =
     IF itemId \in @ THEN @ \ {itemId} ELSE @ \cup {itemId}]

\* localStorage.setItem('upsc-analysis-edits', JSON.stringify(editedJSON))
saveEdits(s, localStorage) ==
  IF s.editedJSON # Null THEN [json |-> clone(s.editedJSON)] ELSE localStorage

reset(s) == EmptyStore

ClientInit ==
  /\ env \in [variant : {"api"}, apiKey : {TRUE}, reqs : {{}}, replies : {"all"}]
  /\ elapsed = MIN_REQUEST_INTERVAL
  /\ pc = [r \in Reqs |-> "new"]
  /\ results = [r \in Reqs |-> <<>>]
  /\ tempFile = [r \in Reqs |-> "none"]
  /\ unlinks = [r \in Reqs |-> 0]
  /\ early = [r \in Reqs |-> FALSE]
  /\ windows = [r \in Reqs |-> 0]
  /\ attempt = [r \in Reqs |-> 0]
  /\ last = [r \in Reqs |-> "none"]
  /\ fetches = [r \in Reqs |-> 0]
  /\ resp = [r \in Reqs |-> <<>>]
  /\ chunks = [r \in Reqs |-> 0]
  /\ mapping = [r \in Reqs |-> [c \in CATEGORIES |-> {}]]
  /\ cpc = [r \in Reqs |-> [c \in CATEGORIES |-> "off"]]
  /\ cattempt = [r \in Reqs |-> [c \in CATEGORIES |-> 0]]
  /\ citems = [r \in Reqs |-> [c \in CATEGORIES |-> <<>>]]
  /\ clast = [r \in Reqs |-> [c \in CATEGORIES |-> "none"]]
  /\ classification = [r \in Reqs |-> NoCall]
  /\ upload = [r \in Reqs |-> "none"]
  /\ textLen = [r \in Reqs |-> -1]
  /\ browser = FreshBrowser
  /\ store = EmptyStore

serverVars == <<env, elapsed, pc, tempFile, unlinks, early, windows, results, attempt,
                last, fetches, resp, chunks, mapping, cpc, cattempt, citems, clast,
                classification, upload, textLen>>

\* FileUpload hands a file to handleFileSelect; its input is disabled while
\* isLoading.
HandleFileSelect(file) ==
  /\ browser.currentPage = "landing" /\ ~browser.isLoading
  /\ browser' = [browser EXCEPT !.uploadedFile = file, !.error = FALSE]
  /\ UNCHANGED <<store, serverVars>>

\* A click on "Analyze Document", up to the await of fetch.  The button is
\* rendered when uploadedFile && !isLoading && !error and disabled while
\* cooldownSeconds > 0.
HandleProceed ==
  /\ browser.currentPage = "landing"
  /\ browser.uploadedFile # "none" /\ ~browser.isLoading /\ ~browser.error
  /\ browser.cooldownSeconds = 0
  /\ browser' = [browser EXCEPT !.isLoading = TRUE, !.error = FALSE, !.request = "sent"]
  /\ store' = [store EXCEPT !.isLoading = TRUE, !.error = FALSE]
  /\ UNCHANGED serverVars

\* The response is a success with data: setAnalysis, the 5-second cooldown,
\* and App shows the results page in place of Landing.
ProceedSucceeds(data) ==
  /\ browser.request = "sent"
  /\ browser' = [browser EXCEPT !.request = "none", !.cooldownSeconds = COOLDOWN_SECONDS,
                                !.currentPage = "analysis", !.isLoading = FALSE,
                                !.remaining = COOLDOWN_SECONDS]
  /\ store' = [setAnalysis(store, data) EXCEPT !.isLoading = FALSE]
  /\ UNCHANGED serverVars

\* The response is a 429 with a truthy retryAfter: the cooldown is set to it.
ProceedLimited(retryAfter) ==
  /\ browser.request = "sent"
  /\ browser' = [browser EXCEPT !.request = "none", !.isLoading = FALSE, !.error = TRUE,
                                !.cooldownSeconds = retryAfter, !.remaining = retryAfter]
  /\ store' = [store EXCEPT !.isLoading = FALSE, !.error = TRUE]
  /\ UNCHANGED serverVars

\* Any other failure, a 429 without retryAfter among them: the message is
\* shown.
ProceedFails ==
  /\ browser.request = "sent"
  /\ browser' = [browser EXCEPT !.request = "none", !.isLoading = FALSE, !.error = TRUE]
  /\ store' = [store EXCEPT !.isLoading = FALSE, !.error = TRUE]
  /\ UNCHANGED serverVars

\* One second passes: Landing's timer, when Landing is on the page, takes
\* one off cooldownSeconds.
Second ==
  /\ browser.remaining > 0 \/ browser.cooldownSeconds > 0
  /\ browser' = [browser EXCEPT
                   !.remaining = IF @ > 0 THEN @ - 1 ELSE 0,
                   !.cooldownSeconds =
                      IF browser.currentPage = "landing" /\ @ > 0 THEN @ - 1 ELSE @]
  /\ UNCHANGED <<store, serverVars>>

\* handleBackToUpload: reset() and App shows Landing, which mounts with its
\* initial state.
HandleBackToUpload ==
  /\ browser.currentPage = "analysis"
  /\ browser' = [FreshBrowser EXCEPT !.localStorage = browser.localStorage,
                                     !.remaining = browser.remaining]
  /\ store' = reset(store)
  /\ UNCHANGED serverVars

\* The results page's editing calls.
UpdatePoint(category, itemIndex, pointIndex) ==
  /\ browser.currentPage = "analysis"
  /\ store' = updatePoint(store, category, itemIndex, pointIndex, NewText)
  /\ browser' = [browser EXCEPT !.called = [op |-> "updatePoint", args |-> <<>>]]
  /\ UNCHANGED serverVars

UpdateTitle(category, itemIndex) ==
  /\ browser.currentPage = "analysis"
  /\ store' = updateTitle(store, category, itemIndex, NewText)
  /\ browser' = [browser EXCEPT !.called = [op |-> "updateTitle", args |-> <<>>]]
  /\ UNCHANGED serverVars

RevertPoint(category, itemIndex, pointIndex) ==
  /\ browser.currentPage = "analysis"
  /\ store' = revertPoint(store, category, itemIndex, pointIndex)
  /\ browser' = [browser EXCEPT
                   !.called = [op |-> "revertPoint",
                               args |-> <<category, itemIndex, pointIndex>>]]
  /\ UNCHANGED serverVars

ToggleBookmark(itemId) ==
  /\ browser.currentPage = "analysis"
  /\ store' = toggleBookmark(store, itemId)
  /\ browser' = [browser EXCEPT !.called = [op |-> "toggleBookmark", args |-> <<>>]]
  /\ UNCHANGED serverVars

SaveEdits ==
  /\ browser.currentPage = "analysis"
  /\ browser' = [browser EXCEPT !.localStorage = saveEdits(store, @),
                                !.called = [op |-> "saveEdits", args |-> <<>>]]
  /\ UNCHANGED <<store, serverVars>>

ClientNext ==
  \/ \E file \in UploadFiles : HandleFileSelect(file)
  \/ HandleProceed
  \/ \E data \in ClientDocuments : ProceedSucceeds(data)
  \/ \E retryAfter \in 1..MaxRetryAfter : ProceedLimited(retryAfter)
  \/ ProceedFails
  \/ Second
  \/ HandleBackToUpload
  \/ \E c \in EditCategories, i, p \in Indices : UpdatePoint(c, i, p)
  \/ \E c \in EditCategories, i \in Indices : UpdateTitle(c, i)
  \/ \E c \in EditCategories, i, p \in Indices : RevertPoint(c, i, p)
  \/ \E itemId \in ItemIds : ToggleBookmark(itemId)
  \/ SaveEdits

ClientSpec == ClientInit /\ [][ClientNext]_vars

----------------------------------------------------------------------------
(* The text analyzeWithGemini puts in prompts *)

\* A stretch of the extracted text: the characters text[from], ...,
\* text[to - 1], as text.substring(from, to) takes them.
Stretch(from, to) == [from |-> from, to |-> to]

\* analyzeSingleChunk: const truncatedText = text.substring(0, 40000) (api),
\* text.substring(0, 50000) (server); the prompt carries truncatedText.
truncatedText(v, text) ==
  LET cap == IF v = "api" THEN ApiTruncate ELSE ServerTruncate
  IN Stretch(text.from, Min(text.to, text.from + cap))

\* analyzeWithGemini: the whole text when text.textLength <= maxChars, else
\* text.substring(start, end) for the first windows of chunkSize characters.
textChunks(v, textLength) ==
  LET maxChars == IF v = "api" THEN ApiMaxChars ELSE ServerMaxChars
      chunkSize == IF v = "api" THEN ApiChunkSize ELSE ServerChunkSize
  IN IF textLength <= maxChars THEN <<Stretch(0, textLength)>>
     ELSE [i \in 1..NumWindows(v, textLength) |->
             LET start == (i - 1) * chunkSize
             IN Stretch(start, Min(start + chunkSize, textLength))]

\* The stretches of the text that the prompts of one analysis carry.
promptTexts(v, textLength) ==
  LET chunkList == textChunks(v, textLength)
  IN [i \in 1..Len(chunkList) |-> truncatedText(v, chunkList[i])]

\* Text lengths around each multiple of 5000 characters.
BlockLengths == {k * 5000 + d : k \in 1..MaxBlocks, d \in {0, 1}}

WindowInit ==
  /\ env \in [variant : NodeVariants, apiKey : {TRUE}, reqs : {{1}}, replies : {"all"}]
  /\ elapsed = MIN_REQUEST_INTERVAL
  /\ pc = [r \in Reqs |-> IF r = 1 THEN "windowing" ELSE "new"]
  /\ results = [r \in Reqs |-> <<>>]
  /\ tempFile = [r \in Reqs |-> "none"]
  /\ unlinks = [r \in Reqs |-> 0]
  /\ early = [r \in Reqs |-> FALSE]
  /\ windows = [r \in Reqs |-> 0]
  /\ attempt = [r \in Reqs |-> 0]
  /\ last = [r \in Reqs |-> "none"]
  /\ fetches = [r \in Reqs |-> 0]
  /\ resp = [r \in Reqs |-> <<>>]
  /\ chunks = [r \in Reqs |-> 0]
  /\ mapping = [r \in Reqs |-> [c \in CATEGORIES |-> {}]]
  /\ cpc = [r \in Reqs |-> [c \in CATEGORIES |-> "off"]]
  /\ cattempt = [r \in Reqs |-> [c \in CATEGORIES |-> 0]]
  /\ citems = [r \in Reqs |-> [c \in CATEGORIES |-> <<>>]]
  /\ clast = [r \in Reqs |-> [c \in CATEGORIES |-> "none"]]
  /\ classification = [r \in Reqs |-> NoCall]
  /\ upload = [r \in Reqs |-> "none"]
  /\ textLen \in {[r \in Reqs |-> IF r = 1 THEN textLength ELSE -1] : textLength \in BlockLengths}
  /\ browser = FreshBrowser
  /\ store = EmptyStore

\* analyzeWithGemini on a text of textLen[r] characters: resp[r] holds the
\* stretches its prompts carry, windows[r] their number.
BuildPrompts(r) ==
  /\ pc[r] = "windowing"
  /\ pc' = [pc EXCEPT ![r] = "windowed"]
  /\ resp' = [resp EXCEPT ![r] = promptTexts(env.variant, textLen[r])]
  /\ windows' = [windows EXCEPT ![r] = NumWindows(env.variant, textLen[r])]
  /\ UNCHANGED <<env, clientVars, results, govVars, fileVars, callVars, inputVars, edgeVars>>

WindowNext == \E r \in env.reqs : BuildPrompts(r)

WindowSpec == WindowInit /\ [][WindowNext]_vars

----------------------------------------------------------------------------
(* Properties *)

Done(r) == pc[r] = "done"
Answered(r) == Done(r) /\ Len(resp[r]) = 1
Succeeded(r) == Answered(r) /\ resp[r][1].success
Document(r) == resp[r][1].data
InPipeline(r) == pc[r] \in {"extract", "call", "backoff"}

\* The items of a returned document, over the categories that hold a list.
Items(doc) ==
  UNION {{doc.categories[c].a[i] : i \in 1..Len(doc.categories[c].a)} :
           c \in {k \in CATEGORIES : k \in DOMAIN doc.categories /\ IsArray(doc.categories[k])}}

\* C1: governor mutual exclusion: in no reachable state are two requests of
\* one instance inside the pipeline (extraction, model call, backoff) at the
\* same time; the later one is turned away before extraction.
GovernorMutualExclusion ==
  \A r1, r2 \in Reqs : (InPipeline(r1) /\ InPipeline(r2)) => r1 = r2

TwoInPipeline == \E r1, r2 \in Reqs : r1 # r2 /\ pc[r1] = "call" /\ pc[r2] = "extract"

\* C2: governor cooldown: a request that arrives sooner than
\* MIN_REQUEST_INTERVAL after the previous accepted request never enters the
\* pipeline; it is answered 429.
GovernorCooldown ==
  \A r \in Reqs :
     (early[r] /\ pc[r] # "new") => (Answered(r) /\ resp[r][1].status = 429)

EarlyInPipeline == \E r \in Reqs : early[r] /\ pc[r] = "call"

\* C3: every request is answered exactly once: a finished request has one
\* response and an unfinished one has none yet and can still proceed; a
\* response is {success: true, data} with all nine category keys in the
\* document, or {success: false, error} without data.
WellFormed(response) ==
  IF response.success
  THEN /\ DOMAIN response = {"success", "status", "data"}
       /\ CATEGORIES \subseteq DOMAIN response.data.categories
  ELSE DOMAIN response = {"success", "status", "error"}

ScenarioB ==
  \A r \in Reqs :
     (env.variant = "api" /\ Answered(r) /\ windows[r] = 1 /\ last[r] = "s429")
        => (~resp[r][1].success /\ resp[r][1].error = RateLimitMessage)

RateLimitedSuccess ==
  \E r \in Reqs :
     /\ env.variant = "api" /\ Succeeded(r) /\ windows[r] = 1 /\ last[r] = "s429"
     /\ Document(r) = Fallback("api", RateLimitMessage)

\* C5: callGemini of api/analyze.ts never waits for another attempt after
\* an attempt that was answered 429 or 403.
NoRetryOnRateLimit ==
  \A r \in Reqs :
     (env.variant = "api" /\ pc[r] = "backoff") => last[r] \notin {"s429", "s403"}

RetryAfterRateLimit ==
  \E r \in Reqs :
     env.variant = "api" /\ pc[r] = "call" /\ attempt[r] = 1 /\ last[r] = "s429"

\* C6: bounded retry: callGemini's attempt never exceeds retries (3 api, 2
\* server, 1 two-phase), so a prompt gets at most retries + 1 fetches; a
\* further attempt starts only from the wait that follows a failed attempt;
\* a successful attempt ends the loop.
Prompts(r) ==
  IF env.variant = "edge"
  THEN (IF pc[r] \in {"classify", "classifyWait"} THEN 1 ELSE 0)
       + (IF pc[r] \in {"extracting", "done"} /\ chunks[r] > 0
          THEN 1 + Cardinality(Active(r)) ELSE 0)
  ELSE IF pc[r] = "done" THEN Len(results[r])
       ELSE IF pc[r] \in {"call", "backoff"} THEN Len(results[r]) + 1
       ELSE 0

BoundedAttempts ==
  \A r \in Reqs :
     /\ attempt[r] <= Retries(env.variant)
     /\ \A c \in CATEGORIES : cattempt[r][c] <= Retries("edge")
     /\ fetches[r] <= Prompts(r) * (Retries(env.variant) + 1)
     /\ pc[r] \in {"backoff", "classifyWait"} =>
          (last[r] \in Failures /\ attempt[r] < Retries(env.variant))

NextAttemptAfterFailure ==
  \A r \in Reqs :
     /\ attempt'[r] > attempt[r] =>
          /\ attempt'[r] = attempt[r] + 1
          /\ pc[r] \in {"backoff", "classifyWait"}
          /\ last[r] \in Failures
     /\ \A c \in CATEGORIES :
          cattempt'[r][c] > cattempt[r][c] =>
             (cattempt'[r][c] = cattempt[r][c] + 1 /\ fetches'[r] = fetches[r] + 1)

CategoryCompleteness ==
  \A r \in Reqs :
     Succeeded(r) =>
        \A c \in CATEGORIES :
           c \in DOMAIN Document(r).categories /\ IsArray(Document(r).categories[c])

StringCategory ==
  \E r \in Reqs :
     /\ env.variant \in {"server1", "server2"} /\ Succeeded(r)
     /\ Document(r).categories["polity"] = Str

\* C8: confidence floor: every item of a document returned by api/analyze.ts
\* has confidence >= 0.5, and every item of a document returned by the
\* two-phase function has confidence >= 0.55.
Threshold(v) == IF v = "edge" THEN MIN_CONFIDENCE ELSE ApiConfidence

ConfidenceFloor ==
  \A r \in Reqs :
     (env.variant \in {"api", "edge"} /\ Succeeded(r)) =>
        \A item \in Items(Document(r)) :
           IsNumber(item.confidence) /\ item.confidence.n >= Threshold(env.variant)

LowConfidenceItem ==
  \E r \in Reqs :
     /\ env.variant = "api" /\ Succeeded(r)
     /\ \E item \in Items(Document(r)) : item.confidence = Num(30)

\* C9: every item of a document returned by api/analyze.ts or the two-phase
\* function has at least one point, and every point has at least 5 words.
PointWords ==
  \A r \in Reqs :
     (env.variant \in {"api", "edge"} /\ Succeeded(r)) =>
        \A item \in Items(Document(r)) :
           /\ Len(item.points.a) > 0
           /\ \A i \in 1..Len(item.points.a) :
                 countWords(item.points.a[i]) >= MinPointWords

ShortPoint ==
  \E r \in Reqs :
     /\ env.variant = "edge" /\ Succeeded(r)
     /\ \E item \in Items(Document(r)) :
           \E i \in 1..Len(item.points.a) : countWords(item.points.a[i]) = 3

\* C10: once a handler of api/analyze.ts or backend/server.js has finished
\* a request that uploaded a file, the file is deleted, by exactly one unlink.
TempFileDeletedOnce ==
  \A r \in Reqs :
     (env.variant \in NodeVariants /\ Done(r) /\ tempFile[r] # "none")
        => (tempFile[r] = "deleted" /\ unlinks[r] = 1)

TempFileLeftBehind ==
  \E r \in Reqs :
     env.variant = "server1" /\ Done(r) /\ tempFile[r] = "exists" /\ unlinks[r] = 0

\* C11: per-category failure isolation (two-phase function): a category
\* whose extraction call failed is an empty list in the returned document,
\* every category holds the items its own extraction returned, the request
\* that got as far as the analysis answers success, and a category that
\* settles changes no sibling.
CompatibleItems(items) == Arr([i \in 1..Len(items) |-> compatibleItem(items[i])])

FailureIsolated ==
  \A r \in Reqs :
     (env.variant = "edge" /\ Done(r) /\ chunks[r] > 0) =>
        /\ Succeeded(r)
        /\ \A c \in CATEGORIES :
              /\ Document(r).categories[c] = CompatibleItems(citems[r][c])
              /\ (clast[r][c] = "failed" \/ cpc[r][c] = "off")
                    => Document(r).categories[c] = Arr(<<>>)

SiblingsUntouched ==
  \A r \in Reqs : \A c \in CATEGORIES :
     (cpc[r][c] = "call" /\ cpc'[r][c] = "done") =>
        /\ pc'[r] = "extracting"
        /\ \A d \in CATEGORIES \ {c} :
              citems'[r][d] = citems[r][d] /\ cpc'[r][d] = cpc[r][d]

FailureIsolation == []FailureIsolated /\ [][SiblingsUntouched]_vars

OneFailedOneKept ==
  \E r \in Reqs : \E c, d \in CATEGORIES :
     /\ env.variant = "edge" /\ Succeeded(r)
     /\ clast[r][c] = "failed" /\ Document(r).categories[c] = Arr(<<>>)
     /\ clast[r][d] = "ok" /\ Len(Document(r).categories[d].a) > 0

\* C12: classifier fallback: when the classification call failed or its
\* output has no parsable JSON, every one of the nine categories is mapped to
\* the ids of all chunks and gets its extraction call, and the document
\* returned keeps the confidence floor.
ClassificationFailed(r) ==
  ~classification[r].ok \/ classification[r].text.json # "ok"

ClassifierFallback ==
  \A r \in Reqs :
     (env.variant = "edge" /\ pc[r] \in {"extracting", "done"} /\ chunks[r] > 0
        /\ ClassificationFailed(r)) =>
        /\ \A c \in CATEGORIES :
              /\ mapping[r][c] = ChunkIds(r)
              /\ cpc[r][c] \in {"call", "done"}
        /\ fetches[r] >= Cardinality(CATEGORIES) + 1
        /\ Done(r) =>
              /\ Succeeded(r)
              /\ \A item \in Items(Document(r)) : item.confidence.n >= MIN_CONFIDENCE

FallbackAnalysed ==
  \E r \in Reqs :
     /\ env.variant = "edge" /\ Succeeded(r) /\ chunks[r] = MaxPages
     /\ ~classification[r].ok
     /\ \A c \in CATEGORIES : Len(Document(r).categories[c].a) > 0

\* C13: fail-fast ordering: a request with an unsupported file type, with
\* an extracted text under the minimum length, or on an instance without API
\* key issues no model call; it is answered with a failure as soon as the
\* cause is known.
FailedFast(r) == Answered(r) /\ ~resp[r][1].success /\ fetches[r] = 0

FailFast ==
  \A r \in Reqs :
     /\ upload[r] = "other" => FailedFast(r)
     /\ (textLen[r] >= 0 /\ textLen[r] < MinTextLength) => FailedFast(r)
     /\ ~env.apiKey => fetches[r] = 0
     /\ (~env.apiKey /\ textLen[r] >= 0) => FailedFast(r)

ShortTextRejected ==
  \E r \in Reqs : textLen[r] = 40 /\ env.apiKey /\ FailedFast(r) /\ env.variant = "api"

\* C14: deduplication: in every document analyzeWithGemini returns
\* (api/analyze.ts, backend/server.js; one window or several) no category
\* holds two items whose titles are equal after lower-casing and truncation
\* to 50 characters.
Titled(list) ==
  IsArray(list) /\ \A i \in 1..Len(list.a) : "title" \in DOMAIN list.a[i] /\ list.a[i].title.t = "text"

NoDuplicateTitles ==
  \A r \in Reqs :
     (env.variant \in NodeVariants /\ Succeeded(r)) =>
        \A c \in CATEGORIES :
           LET list == Document(r).categories[c]
           IN Titled(list) =>
                \A i, j \in 1..Len(list.a) :
                   normalizedTitle(list.a[i].title.s) = normalizedTitle(list.a[j].title.s)
                      => i = j

DuplicateInOneWindow ==
  \E r \in Reqs :
     /\ env.variant = "api" /\ Succeeded(r) /\ windows[r] = 1
     /\ LET list == Document(r).categories["polity"]
        IN Len(list.a) = 2 /\ list.a[1].title.s = <<"A">> /\ list.a[2].title.s = <<"a">>

\* C15: deduplication is idempotent: merging the one-element list that holds
\* a merged document gives, in each category, the same items in the same
\* order as the merged document itself, with and without the sort by
\* priorityScore.
MergeIdempotent ==
  \A r \in Reqs :
     pc[r] = "remerged" =>
        \A c \in CATEGORIES : resp[r][2].categories[c] = resp[r][1].categories[c]

\* Two windows lost a duplicate, and the merged list holds two items of
\* equal score, under the version that sorts.
MergedTwiceWithTie ==
  \E r \in Reqs :
     /\ env.variant = "api" /\ pc[r] = "remerged" /\ Len(results[r]) = 2
     /\ LET list == resp[r][1].categories["polity"].a
        IN /\ Len(concat(results[r], "polity")) > Len(list)
           /\ \E i, j \in 1..Len(list) : i < j /\ Priority(list[i]) = Priority(list[j])

\* chunkText has run for request r; its pages, and the chunks of page p.
Chunked(r) == pc[r] = "chunked"
PageNumbers(r) == 1..Len(results[r])
Sanitized(r, p) == sanitizeText(results[r][p].text)
ChunksOf(r, p) == SelectSeq(resp[r], LAMBDA c : c.page = p)
LongPage(r, p) == length(Sanitized(r, p)) > MAX_CHARS_PER_CHUNK

\* C16: chunk ceiling: every chunk chunkText produces has a text of at most
\* MAX_CHARS_PER_CHUNK characters, whatever the page.
ChunkCeiling ==
  \A r \in Reqs :
     Chunked(r) => \A k \in 1..Len(resp[r]) : length(resp[r][k].text) <= MAX_CHARS_PER_CHUNK

\* A page of one sentence without terminator, longer than the ceiling, came
\* out as one chunk.
UnsplitLongPage ==
  \E r \in Reqs :
     /\ Chunked(r) /\ Len(results[r]) = 1 /\ LongPage(r, 1)
     /\ Len(splitSentences(Sanitized(r, 1))) = 1
     /\ \A i \in 1..Len(Sanitized(r, 1)) : Sanitized(r, 1)[i] \notin Terminators
     /\ Len(resp[r]) = 1 /\ length(resp[r][1].text) > MAX_CHARS_PER_CHUNK

RECURSIVE joinTexts(_, _)
joinTexts(cs, n) ==
  IF n = 0 THEN <<>>
  ELSE IF n = 1 THEN cs[1].text
  ELSE joinTexts(cs, n - 1) \o <<SP>> \o cs[n].text

\* C17: chunking never splits mid-sentence: for a page longer than the
\* ceiling (one that is chunked at all: it has the minimum of words), the
\* text up to each boundary between two chunks is a whole number of the
\* page's sentences (the pieces between a terminator followed by
\* whitespace), so the boundary falls behind such a terminator; and the
\* chunks put together hold the page's sentences in their order, none lost
\* and none twice.
WholeSentences ==
  \A r \in Reqs :
     Chunked(r) =>
        \A p \in PageNumbers(r) :
           (LongPage(r, p) /\ countWords(Sanitized(r, p)) >= MIN_WORDS_PER_CHUNK) =>
              LET sentences == splitSentences(Sanitized(r, p))
                  cs == ChunksOf(r, p)
                  n == Len(cs)
              IN /\ splitSentences(joinTexts(cs, n)) = sentences
                 /\ \A k \in 1..(n - 1) :
                       LET upTo == splitSentences(joinTexts(cs, k) \o <<SP>>)
                       IN /\ Len(upTo) - 1 \in 1..(Len(sentences) - 1)
                          /\ upTo = SubSeq(sentences, 1, Len(upTo) - 1) \o << <<>> >>

\* A page of three sentences, one of them ending in "?", came out as two
\* chunks, the first holding two sentences.
SplitBehindSecondSentence ==
  \E r \in Reqs :
     /\ Chunked(r) /\ Len(results[r]) = 1 /\ LongPage(r, 1)
     /\ Len(splitSentences(Sanitized(r, 1))) = 3
     /\ \E i \in 1..Len(Sanitized(r, 1)) : Sanitized(r, 1)[i] = "?"
     /\ Len(resp[r]) = 2
     /\ Len(splitSentences(resp[r][1].text \o <<SP>>)) = 3

\* C18: a page yields chunks exactly if its sanitized text has at least
\* MIN_WORDS_PER_CHUNK words: a page below the minimum has no chunk that
\* carries its number, a page at or above it has at least one.
PageQualifies ==
  \A r \in Reqs :
     Chunked(r) =>
        /\ \A k \in 1..Len(resp[r]) : resp[r][k].page \in PageNumbers(r)
        /\ \A p \in PageNumbers(r) :
              (ChunksOf(r, p) # <<>>) <=> (countWords(Sanitized(r, p)) >= MIN_WORDS_PER_CHUNK)

\* A page of exactly 20 words was kept, behind a page of 10 words that was
\* dropped.
PageAtTheMinimumKept ==
  \E r \in Reqs :
     /\ Chunked(r) /\ Len(results[r]) = 2
     /\ countWords(Sanitized(r, 1)) = 10
     /\ countWords(Sanitized(r, 2)) = MIN_WORDS_PER_CHUNK
     /\ Len(resp[r]) = 1 /\ resp[r][1].page = 2 /\ resp[r][1].id = 0

\* C19: no chunk has fewer than MIN_WORDS_PER_CHUNK words, and each chunk's
\* wordCount is the word count of its text, the last chunk of a split page
\* included.
ChunkMinimumWords ==
  \A r \in Reqs :
     Chunked(r) =>
        \A k \in 1..Len(resp[r]) :
           /\ resp[r][k].wordCount >= MIN_WORDS_PER_CHUNK
           /\ resp[r][k].wordCount = countWords(resp[r][k].text)

\* The last chunk of a split page holds the three words of its last
\* sentence, and no chunk is above the ceiling.
ShortLastChunk ==
  \E r \in Reqs :
     /\ Chunked(r) /\ Len(results[r]) = 1 /\ LongPage(r, 1) /\ Len(resp[r]) = 2
     /\ resp[r][2].wordCount = 3 /\ countWords(resp[r][2].text) = 3
     /\ \A k \in 1..2 : length(resp[r][k].text) <= MAX_CHARS_PER_CHUNK

\* C20: one model call per document: a request to api/analyze.ts that gets as
\* far as analyzeWithGemini has issued exactly one call to the model service
\* when it is answered, whatever the text length and the call's outcome.
OneModelCall ==
  \A r \in Reqs :
     (env.variant = "api" /\ Done(r) /\ windows[r] >= 1) => fetches[r] = 1

\* A text of 90000 characters was answered after a call for each of its two
\* windows, both successful at the first attempt.
CallPerWindow ==
  \E r \in Reqs :
     /\ env.variant = "api" /\ Succeeded(r)
     /\ textLen[r] = 90000 /\ windows[r] = 2 /\ fetches[r] = 2

\* C21: after a successful classification every chunk is mapped: each chunk
\* id chunkText produced is in the list of exactly one of the 9 categories
\* of the mapping, also when the model omits an id or names a category
\* outside the fixed list.
EveryChunkMapped ==
  \A r \in Reqs :
     (env.variant = "edge" /\ pc[r] \in {"extracting", "done"} /\ chunks[r] > 0
        /\ ~ClassificationFailed(r)) =>
        \A id \in ChunkIds(r) : Cardinality({c \in CATEGORIES : id \in mapping[r][c]}) = 1

\* The classifier put chunk 0 under "sports" and left chunk 1 out: no
\* category holds either, and the request was answered without any
\* extraction.
ChunkLeftOut ==
  \E r \in Reqs :
     /\ env.variant = "edge" /\ Succeeded(r) /\ chunks[r] = 2
     /\ ~ClassificationFailed(r)
     /\ DOMAIN classification[r].text.value = {0}
     /\ classification[r].text.value[0] = "sports"
     /\ \A c \in CATEGORIES : mapping[r][c] = {}

\* C22: two-phase ordering and join: an extraction call is under way or
\* settled only once the classification call has returned or failed; the
\* document is returned only when every started extraction has settled;
\* and a step that settles one extraction, failed or not, leaves every other
\* extraction as it was, the running ones running.
JoinOrdered ==
  \A r \in Reqs :
     env.variant = "edge" =>
        /\ \A c \in CATEGORIES :
              cpc[r][c] # "off" =>
                 pc[r] \in {"extracting", "done"} /\ classification[r] # NoCall
        /\ Done(r) => \A c \in CATEGORIES : cpc[r][c] \in {"off", "done"}

NoPreemption ==
  \A r \in Reqs : \A c \in CATEGORIES :
     /\ (cpc[r][c] = "off" /\ cpc'[r][c] # "off") =>
           pc[r] = "classify" /\ pc'[r] = "extracting" /\ cpc'[r][c] = "call"
     /\ (cpc[r][c] = "call" /\ cpc'[r][c] # "call") =>
           /\ cpc'[r][c] = "done" /\ pc[r] = "extracting" /\ pc'[r] = "extracting"
           /\ \A d \in CATEGORIES \ {c} : cpc'[r][d] = cpc[r][d]
     /\ cpc[r][c] = "done" => cpc'[r][c] = "done"

TwoPhaseJoin == []JoinOrdered /\ [][NoPreemption]_vars

\* One extraction has failed for good while another is still running.
RunningBesideFailed ==
  \E r \in Reqs : \E c, d \in CATEGORIES :
     /\ env.variant = "edge" /\ pc[r] = "extracting"
     /\ cpc[r][c] = "done" /\ clast[r][c] = "failed" /\ citems[r][c] = <<>>
     /\ cpc[r][d] = "call"

RECURSIVE SumOver(_, _)
SumOver(f, S) ==
  IF S = {} THEN 0
  ELSE LET x == CHOOSE y \in S : TRUE IN f[x] + SumOver(f, S \ {x})

SyntheticParseItem(item) ==
  /\ item.title = Text(ErrorTitle)
  /\ IsArray(item.points) /\ Len(item.points.a) >= 1
  /\ item.points.a[1] \in {<<"Error:", SP>> \o NoJsonMessage,
                          <<"Error:", SP>> \o SyntaxErrorMessage}

\* C24: parse-failure degradation: a reply without parsable JSON object
\* leaves its category or text window empty: no document that is returned
\* holds, in any category, an item made up for the failure.
ParseFailureDegrades ==
  \A r \in Reqs :
     Succeeded(r) =>
        \A c \in CATEGORIES :
           LET list == Document(r).categories[c]
           IN IsArray(list) => \A i \in 1..Len(list.a) : ~SyntheticParseItem(list.a[i])

\* api/analyze.ts: the only fetch of a one-window text returned a text
\* without JSON object, and the document is the fallback with its item under
\* polity.
SyntheticItemAfterNoJson ==
  \E r \in Reqs :
     /\ env.variant = "api" /\ Succeeded(r)
     /\ windows[r] = 1 /\ fetches[r] = 1 /\ last[r] = "ok"
     /\ Document(r) = Fallback("api", NoJsonMessage)
     /\ SyntheticParseItem(Document(r).categories["polity"].a[1])

\* The reply of request r, and what the search has made of it.
Reply(r) == results[r][1] \o results[r][2] \o results[r][3]
Located(r) == pc[r] = "located"

\* The first balanced {...} of t: a match that stops at the brace that closes the first one.
matchBalanced(t) ==
  LET opens == {i \in 1..Len(t) : t[i] = "{"}
  IN IF opens = {} THEN NoMatch
     ELSE LET first == Least(opens)
              closes == {j \in (first + 1)..Len(t) : t[j] = "}" /\ Depth(t, j) = Depth(t, first - 1)}
          IN IF closes = {} THEN NoMatch ELSE Match(SubSeq(t, first, Least(closes)))

\* C25: tolerant JSON location: from a reply that is one valid JSON object
\* with prose or fences around it, braces among them, the first balanced
\* {...} is selected and exactly that object is parsed.  (The object of the
\* reply is the first balanced one: what stands in front of it holds no
\* opening brace.)
FirstBalancedParsed ==
  \A r \in Reqs :
     (Located(r) /\ matchBalanced(Reply(r)) = Match(results[r][2])) =>
        resp[r][1] = Json(results[r][2])

\* The object stands between two fences and a closing brace follows in the
\* prose behind it: the match runs on to that brace and JSON.parse rejects it.
MatchRunsOn ==
  \E r \in Reqs :
     /\ Located(r)
     /\ results[r][1] = <<"fence">> /\ results[r][2] = <<"{", "k", "}">>
     /\ results[r][3] = <<"fence", "}">>
     /\ matchBalanced(Reply(r)) = Match(results[r][2])
     /\ match(Reply(r)) = Match(<<"{", "k", "}", "fence", "}">>)
     /\ resp[r][1] = BadJson

\* C26: priority score: every item that went through processNewsItems has
\* priorityScore = min(1.0, c + min(0.2, 0.05 * h)), c its confidence and h
\* the number of its numericHighlights, which is at most 5; so the score is
\* at most 1.0 and, for a confidence in [0, 1], not below the confidence.
\* (Hundredths; items that carry a confidence.)
PriorityScoreFormula ==
  \A r \in Reqs :
     pc[r] = "scored" =>
        \A i \in 1..Len(resp[r]) :
           LET item == resp[r][i]
               h == Len(item.numericHighlights)
           IN IsNumber(item.confidence) =>
                 /\ h <= 5
                 /\ item.priorityScore = Min(100, item.confidence.n + Min(20, 5 * h))
                 /\ item.priorityScore <= 100
                 /\ (item.confidence.n \in 0..100 => item.priorityScore >= item.confidence.n)

\* An item of confidence 0 without numeric match came out with 0.5.
ZeroConfidenceScoredHalf ==
  \E r \in Reqs :
     /\ pc[r] = "scored" /\ Len(resp[r]) >= 1
     /\ resp[r][1].confidence = Num(0) /\ resp[r][1].numericHighlights = <<>>
     /\ resp[r][1].priorityScore = 50

\* C27: priority ordering: in every document that api/analyze.ts returns,
\* the items of each category stand in non-increasing order of
\* priorityScore, for a text of one window and of several, fallback items
\* included.
PriorityOrdered ==
  \A r \in Reqs :
     (env.variant = "api" /\ Succeeded(r)) =>
        \A c \in CATEGORIES :
           LET list == Document(r).categories[c]
           IN IsArray(list) =>
                 \A i, j \in 1..Len(list.a) :
                    i < j => Priority(list.a[i]) >= Priority(list.a[j])

\* A text of one window, and the reply's polity list came back as the model
\* gave it: the item of the lower score first.
SingleWindowUnsorted ==
  \E r \in Reqs :
     /\ env.variant = "api" /\ Succeeded(r) /\ windows[r] = 1
     /\ LET list == Document(r).categories["polity"]
        IN /\ IsArray(list) /\ Len(list.a) = 2
           /\ Priority(list.a[1]) < Priority(list.a[2])

\* A click on "Analyze Document" has taken effect in this step.
Triggered == browser.request = "none" /\ browser'.request = "sent"

\* C28: client cooldown: after a successful analysis "Analyze Document"
\* cannot be triggered again before 5 seconds have passed, going to the
\* results page and back within them included; after a 429 response with
\* retryAfter, not before retryAfter seconds have passed.
CooldownRespected == [][Triggered => browser.remaining = 0]_vars

\* An analysis is under way on the upload page while seconds of the last
\* success's cooldown are still to pass.
TriggeredInsideCooldown ==
  /\ browser.currentPage = "landing" /\ browser.request = "sent"
  /\ browser.remaining > 0 /\ browser.cooldownSeconds = 0

\* An editing call was made in this step: the results page stays, a store
\* is there.
Editing ==
  /\ browser.currentPage = "analysis" /\ browser'.currentPage = "analysis"
  /\ store.analysisJSON # Null

\* The latest call was revertPoint on a point that analysisJSON has: the
\* point stands in editedJSON as it stands in analysisJSON.
Reverted ==
  (browser.called.op = "revertPoint" /\ store.analysisJSON # Null) =>
     LET c == browser.called.args[1]
         i == browser.called.args[2]
         p == browser.called.args[3]
     IN HasPoint(store.analysisJSON, c, i, p) =>
           /\ HasPoint(store.editedJSON, c, i, p)
           /\ PointAt(store.editedJSON, c, i, p) = PointAt(store.analysisJSON, c, i, p)

\* C29: editing never changes the analysis result: after setAnalysis(data)
\* no updatePoint, updateTitle, revertPoint, toggleBookmark or saveEdits
\* changes analysisJSON, and after revertPoint(c, i, p) on an existing point
\* the point (c, i, p) of editedJSON equals that of analysisJSON.
EditsLeaveAnalysis ==
  /\ [][Editing => store'.analysisJSON = store.analysisJSON]_vars
  /\ []Reverted

\* revertPoint was called on the edited point 0 of item 0, whose original is
\* the empty string; the edit is still there.
EmptyPointNotReverted ==
  /\ browser.called = [op |-> "revertPoint", args |-> <<"polity", 0, 0>>]
  /\ store.analysisJSON # Null
  /\ PointAt(store.analysisJSON, "polity", 0, 0) = ""
  /\ PointAt(store.editedJSON, "polity", 0, 0) = NewText

\* C30: text coverage of api/analyze.ts' analyzeWithGemini: of a text of L
\* characters the prompts carry exactly the first min(L, 80000), as
\* disjoint windows in document order of at most 40000 characters each; a
\* text of at most 80000 characters is sent in full.
TextCoverage ==
  \A r \in Reqs :
     (env.variant = "api" /\ pc[r] = "windowed") =>
        LET sent == resp[r]
        IN /\ Len(sent) >= 1 /\ sent[1].from = 0
           /\ \A i \in 1..(Len(sent) - 1) : sent[i + 1].from = sent[i].to
           /\ \A i \in 1..Len(sent) : sent[i].to - sent[i].from <= ApiChunkSize
           /\ sent[Len(sent)].to = Min(textLen[r], ApiMaxChars)

\* A text of 60000 characters went out as one prompt with its first 40000.
SingleWindowTruncated ==
  \E r \in Reqs :
     /\ env.variant = "api" /\ pc[r] = "windowed" /\ textLen[r] = 60000
     /\ windows[r] = 1 /\ resp[r] = <<Stretch(0, 40000)>>

====
